---- MODULE Spec2Model ----
(***************************************************************************)
(* Model of the images-sorter backend: the ImageProcessor inference        *)
(* resource (functions/image_processor.py), the per-item inference call    *)
(* (functions/folders.py) and the batch / folder / streaming handlers      *)
(* (api/api.py).                                                           *)
(***************************************************************************)
EXTENDS Integers, Sequences, FiniteSets, TLC

\* ------------------------------------------------------------------ bounds
\* Largest number of images a folder listing or a batch list holds.
MaxImages == 3
\* Largest cap (max_images / num_images) a caller supplies.
MaxCap == 4
\* Number of load executions after which no further reload or request starts.
MaxLoads == 4
\* Number of threads of the concurrent acquisition specification.
NumThreads == 2
\* Largest number of clear_cache calls a caller makes.
MaxClears == 2
\* Largest number of assignments a caller makes through the property setters.
MaxSets == 1
\* Largest width or height of the small images planned and tiled.
MaxDim == 5
\* Largest max_num (tile count of a grid) of a configuration.
MaxTiles == 6
\* Largest min_num of a configuration.
MaxMinTiles == 2

\* ------------------------------------------------------------- value sets
\* Outcome of load_image_for_internvl + model.chat for one image: "ok" or the
\* class of the exception raised inside inference_on_images' try block.
Outcomes ==
    {"ok", "FileNotFoundError", "PermissionError", "ValueError",
     "OutOfMemoryError", "Exception"}

\* Outcome of the two from_pretrained calls of one load.
LoadOutcomes == {"ok", "tokenizer_fails", "model_fails"}

\* Magnitude of the most negative cap a client supplies.
MaxNegCap == 2

\* Smallest cap a client supplies (FolderRequest.max_images is any int).
MinCap == 0 - MaxNegCap

Caps == MinCap .. MaxCap

ModelIds == {"OpenGVLab/InternVL3_5-1B", "other/model"}

DefaultModelId == "OpenGVLab/InternVL3_5-1B"

RequestKinds == {"batch", "folder", "folder_stream", "single_stream"}

Min(a, b) == IF a < b THEN a ELSE b

Max(a, b) == IF a > b THEN a ELSE b

\* ------------------------------------------------------------------ state
VARIABLES
    image_processor,  \* api.py global: "None" or "ImageProcessor"
    model_id,         \* ImageProcessor.model_id
    model,            \* ImageProcessor._model (a handle, or NoHandle for None)
    tokenizer,        \* ImageProcessor._tokenizer
    is_loaded,        \* ImageProcessor._is_loaded
    nloads,           \* load executions begun so far (past the is_loaded guard)
    acq,              \* handles returned by acquisitions since the last reload
                      \* or assignment
    kind,             \* the request being served, "none" when idle
    pc,               \* position inside the handler / generator
    image_paths,      \* the listing or the batch list (paths are 1..n)
    max_images,       \* the cap supplied by the caller
    images_to_process,\* the items the loop iterates
    idx,              \* number of loop iterations completed
    successful,       \* successful / successful_count
    processed,        \* processed / total_to_process of the summary (-1 before)
    failed,           \* failed count of the final summary (-1 before it)
    results,          \* process_folder's results list
    events,           \* events yielded by the stream so far
    attempted,        \* history: <<path, outcome>> of every inference call made
    raised,           \* exception that left the handler ("none" if none)
    nraised,          \* history: number of batch-level failures raised
    tpc,              \* per thread: position in the acquisition
    tseen,            \* per thread: what the thread observed
    tself,            \* per thread: the instance the thread is constructing,
                      \* or is inside once the global names another one
    tbound,           \* per thread: the instance its method call runs on
    inflight,         \* history: per thread, the number of the load it runs
    ninstances,       \* history: ImageProcessor instances constructed
    nclears,          \* history: calls of clear_cache made so far
    nsets,            \* history: assignments through the property setters
    tphase,           \* position of the dynamic_preprocess call
    orig_width,       \* image.size[0]
    orig_height,      \* image.size[1]
    min_num,          \* smallest tile count of a candidate grid
    max_num,          \* largest tile count of a candidate grid
    image_size,       \* edge of a tile, in pixels
    use_thumbnail,    \* whether a thumbnail is appended to several tiles
    aspect_ratio,     \* orig_width / orig_height, a float
    remaining,        \* candidates of target_ratios the loop has yet to visit
    best_ratio,       \* find_closest_aspect_ratio's best_ratio
    best_ratio_diff,  \* find_closest_aspect_ratio's best_ratio_diff, a float
    tied,             \* history: candidates met at the current best difference
    target_aspect_ratio, \* the grid find_closest_aspect_ratio returned
    processed_images, \* the list dynamic_preprocess builds and returns
    terror,           \* exception that left dynamic_preprocess ("none" if none)
    request,          \* what the client sent to a file or upload endpoint
    response,         \* the HTTP response of a file or upload endpoint
    listed,           \* history: the request called get_list_images
    tasks,            \* per client: the stream or batch the client is running
    running           \* the client whose blocking call holds the event loop

resVars ==
    <<image_processor, model_id, model, tokenizer, is_loaded, nloads, acq,
      nclears, nsets>>

reqVars ==
    <<kind, pc, image_paths, max_images, images_to_process, idx, successful,
      processed, failed, results, events, attempted, raised, nraised>>

thrVars == <<tpc, tseen, tself, tbound, inflight, ninstances>>

tileVars ==
    <<tphase, orig_width, orig_height, min_num, max_num, image_size,
      use_thumbnail, aspect_ratio, remaining, best_ratio, best_ratio_diff, tied,
      target_aspect_ratio, processed_images, terror>>

httpVars == <<request, response, listed>>

asyncVars == <<tasks, running>>

vars == <<resVars, reqVars, thrVars, tileVars, httpVars, asyncVars>>

\* ------------------------------------------------ no tiling call in progress
\* A float (IEEE 754 binary64) in the range the ratios take is a multiple of
\* 2^-63 below 2^12: it is held exactly as three limbs of 25 bits, most
\* significant first, of the integer value * 2^63.
FloatZero == <<0, 0, 0>>

\* No grid: find_closest_aspect_ratio has not returned.
NoRatio == <<0, 0>>

TileIdle ==
    /\ tphase = "idle"
    /\ orig_width = 0
    /\ orig_height = 0
    /\ min_num = 0
    /\ max_num = 0
    /\ image_size = 0
    /\ use_thumbnail = FALSE
    /\ aspect_ratio = FloatZero
    /\ remaining = {}
    /\ best_ratio = NoRatio
    /\ best_ratio_diff = FloatZero
    /\ tied = <<>>
    /\ target_aspect_ratio = NoRatio
    /\ processed_images = <<>>
    /\ terror = "none"

\* ------------------------------------- no file or upload request in progress
\* A path or a content type is a string, held as the sequence of its
\* characters; None is held as NoString.
NoString == <<"None">>

NoRequest ==
    [path |-> <<>>, on_disk |-> "", extension |-> "", content_type |-> NoString,
     filename |-> ""]

\* A response: the status code and detail of an HTTPException, or the fields
\* of the value a handler returns (NoInt is -1, an absent number).
NoResponse ==
    [status_code |-> 0, detail |-> "", file |-> <<>>, folder_path |-> <<>>,
     extension |-> "", total_found |-> 0 - 1, image_paths |-> <<>>,
     filename |-> "", status |-> "", description |-> ""]

HttpIdle ==
    /\ request = NoRequest
    /\ response = NoResponse
    /\ listed = FALSE

\* ------------------------------------------ no concurrent client is active
\* Largest number of images in the folder or list of a concurrent client.
MaxAsyncImages == 2

\* The clients served at the same time.
Clients == {1, 2}

\* The locals of a client's generator or batch call before it starts; calls
\* is the number of inference calls of the client that have begun and not
\* yet returned.
TaskIdle ==
    [kind |-> "none", pc |-> "idle", image_paths |-> <<>>, max_images |-> 0,
     images_to_process |-> <<>>, idx |-> 0, successful |-> 0,
     processed |-> 0 - 1, events |-> <<>>, calls |-> 0, raised |-> "none"]

AsyncIdle ==
    /\ tasks = [c \in Clients |-> TaskIdle]
    /\ running = 0

\* ------------------------------------------------- the inference resource
NoHandle == [id |-> "None", n |-> 0]

\* The object a from_pretrained call returns: a fresh object per call.
Handle(id, n) == [id |-> id, n |-> n]

\* The fields of the ImageProcessor instance, as one record.
Self ==
    [model_id |-> model_id, model |-> model, tokenizer |-> tokenizer,
     is_loaded |-> is_loaded, nloads |-> nloads, nclears |-> nclears,
     nsets |-> nsets]

\* Assign the instance's fields.
SetSelf(s) ==
    /\ model_id' = s.model_id
    /\ model' = s.model
    /\ tokenizer' = s.tokenizer
    /\ is_loaded' = s.is_loaded
    /\ nloads' = s.nloads
    /\ nclears' = s.nclears
    /\ nsets' = s.nsets

\* A dataclass instance before __post_init__ runs.
NewSelf(id, n) ==
    [model_id |-> id, model |-> NoHandle, tokenizer |-> NoHandle,
     is_loaded |-> FALSE, nloads |-> n, nclears |-> 0, nsets |-> 0]

\* Mutant: the is_loaded guard is missing, every call loads again.
LoadModelAndProcessorNoGuard(s, out) ==
    IF out = "tokenizer_fails"
    THEN [s |-> [s EXCEPT !.nloads = @ + 1], raised |-> TRUE]
    ELSE LET s1 == [s EXCEPT !.tokenizer = Handle(s.model_id, s.nloads + 1),
                             !.nloads = @ + 1]
         IN  IF out = "model_fails"
             THEN [s |-> s1, raised |-> TRUE]
             ELSE [s |-> [s1 EXCEPT !.model = Handle(s.model_id, s.nloads + 1),
                                    !.is_loaded = TRUE],
                   raised |-> FALSE]

\* Mutant: a failed load is cached, the instance is marked loaded although a
\* from_pretrained call raised.
LoadModelAndProcessorCachesFailure(s, out) ==
    IF s.is_loaded
    THEN [s |-> s, raised |-> FALSE]
    ELSE IF out = "tokenizer_fails"
    THEN [s |-> [s EXCEPT !.nloads = @ + 1, !.is_loaded = TRUE],
          raised |-> TRUE]
    ELSE LET s1 == [s EXCEPT !.tokenizer = Handle(s.model_id, s.nloads + 1),
                             !.nloads = @ + 1]
         IN  IF out = "model_fails"
             THEN [s |-> [s1 EXCEPT !.is_loaded = TRUE], raised |-> TRUE]
             ELSE [s |-> [s1 EXCEPT !.model = Handle(s.model_id, s.nloads + 1),
                                    !.is_loaded = TRUE],
                   raised |-> FALSE]

\* ImageProcessor._load_model_and_processor: returns at once when loaded; else
\* loads the tokenizer, then the model, then sets _is_loaded. A from_pretrained
\* call that raises leaves the fields assigned before it.
LoadModelAndProcessor(s, out) ==
    IF s.is_loaded
    THEN [s |-> s, raised |-> FALSE]
    ELSE IF out = "tokenizer_fails"
    THEN [s |-> [s EXCEPT !.nloads = @ + 1], raised |-> TRUE]
    ELSE LET s1 == [s EXCEPT !.tokenizer = Handle(s.model_id, s.nloads + 1),
                             !.nloads = @ + 1]
         IN  IF out = "model_fails"
             THEN [s |-> s1, raised |-> TRUE]
             ELSE [s |-> [s1 EXCEPT !.model = Handle(s.model_id, s.nloads + 1),
                                    !.is_loaded = TRUE],
                   raised |-> FALSE]

\* ImageProcessor.model (getter): loads when not loaded, returns _model.
ModelGetter(s, out) ==
    LET r == LoadModelAndProcessor(s, out)
    IN  [s |-> r.s, raised |-> r.raised,
         value |-> IF r.raised THEN NoHandle ELSE r.s.model]

\* ImageProcessor.tokenizer (getter): loads when not loaded, raises
\* RuntimeError when _tokenizer is None.
TokenizerGetter(s, out) ==
    LET r == LoadModelAndProcessor(s, out)
    IN  [s |-> r.s,
         raised |-> r.raised \/ r.s.tokenizer = NoHandle,
         value |-> IF r.raised THEN NoHandle ELSE r.s.tokenizer]

\* Mutant: the exception of the load is swallowed.
EnsureModelsLoadedSwallows(s, out) ==
    LET m == ModelGetter(s, out)
    IN  [s |-> m.s, raised |-> "none", value |-> m.value]

\* ImageProcessor._ensure_models_loaded: reads the model then the processor
\* property; any exception is re-raised as RuntimeError.
EnsureModelsLoaded(s, out) ==
    LET m == ModelGetter(s, out)
        p == IF m.raised THEN m ELSE ModelGetter(m.s, out)
    IN  [s |-> p.s,
         raised |-> IF p.raised THEN "RuntimeError" ELSE "none",
         value |-> m.value]

\* Mutant: the identifier is installed but the instance stays marked loaded.
ReloadResetKeepsLoaded(s, new_model_id) ==
    [s EXCEPT !.model_id = IF new_model_id # "" THEN new_model_id ELSE @]

\* ImageProcessor.reload_model up to the call of _load_model_and_processor.
ReloadReset(s, new_model_id) ==
    [s EXCEPT !.model_id = IF new_model_id # "" THEN new_model_id ELSE @,
              !.is_loaded = FALSE,
              !.model = NoHandle]

\* Mutant: the load is entered first, the identifier and the reset follow.
ReloadModelOpLoadsFirst(s, new_model_id, out) ==
    LET r == LoadModelAndProcessor(s, out)
    IN  [s |-> ReloadReset(r.s, new_model_id), raised |-> r.raised]

\* Mutant: a reload whose load fails puts the previous identifier back.
ReloadModelOpRollsBack(s, new_model_id, out) ==
    LET r == LoadModelAndProcessor(ReloadReset(s, new_model_id), out)
    IN  IF r.raised
        THEN [s |-> [r.s EXCEPT !.model_id = s.model_id], raised |-> TRUE]
        ELSE r

\* ImageProcessor.reload_model.
ReloadModelOp(s, new_model_id, out) ==
    LoadModelAndProcessor(ReloadReset(s, new_model_id), out)

\* Mutant: clear_cache drops the model handle and marks the instance unloaded.
ClearCacheOpRelease(s) ==
    [s EXCEPT !.nclears = @ + 1, !.model = NoHandle, !.is_loaded = FALSE]

\* ImageProcessor.clear_cache: empties the CUDA allocator cache; no field of
\* the instance changes (nclears is the history of the calls).
ClearCacheOp(s) == [s EXCEPT !.nclears = @ + 1]

\* What a caller assigns through a setter: None, or an object built
\* elsewhere (no load of the instance produced it: load number 0).
AssignedValues == {NoHandle, Handle("other/model", 0)}

\* ImageProcessor.model (setter): self._model = value; _is_loaded is not
\* touched (nsets is the history of the assignments).
ModelSetter(s, value) == [s EXCEPT !.model = value, !.nsets = @ + 1]

\* ImageProcessor.tokenizer (setter): self._tokenizer = value.
TokenizerSetter(s, value) == [s EXCEPT !.tokenizer = value, !.nsets = @ + 1]

\* --------------------------------------------------------- item inference
\* str(e) of the exception caught inside inference_on_images, prefixed as the
\* function prefixes it.
ErrorText(o) ==
    CASE o = "FileNotFoundError" -> "Error processing image: file not found"
      [] o = "PermissionError" -> "Error processing image: permission denied"
      [] o = "ValueError" -> "Error processing image: invalid image"
      [] o = "OutOfMemoryError" -> "Error processing image: CUDA out of memory"
      [] OTHER -> "Error processing image: unexpected"

\* folders.inference_on_images: the whole body is in try/except Exception, and
\* the handler returns the error text as the response; nothing is raised.
InferenceOnImages(o) ==
    IF o = "ok"
    THEN [raised |-> "none", response |-> "description"]
    ELSE [raised |-> "none", response |-> ErrorText(o)]

\* The call inference_on_images(path, <processor>.tokenizer, model): the
\* tokenizer property is read first and may raise, then the function runs.
CallInference(s, o, out) ==
    LET t == TokenizerGetter(s, out)
        r == InferenceOnImages(o)
    IN  IF t.raised
        THEN [s |-> t.s, raised |-> "RuntimeError", response |-> ""]
        ELSE [s |-> t.s, raised |-> r.raised, response |-> r.response]

\* Outcome of torch.cuda.empty_cache() inside clear_cache.
ClearCacheOutcomes == {"ok", "fails"}

\* Class of the exception a failing from_pretrained call raises.
LoadErrors == {"OSError", "OutOfMemoryError"}

\* ImageProcessor._process_single_image: True when the call returns, False
\* from each except clause. The OutOfMemoryError clause calls clear_cache
\* with no try around it, so an exception of clear_cache leaves the method.
\* The tokenizer property is read inside the try block: the exception of a
\* load it runs (of class err) is caught by the clause of its class, like
\* the RuntimeError of a missing tokenizer.
ProcessSingleImage(s, o, out, err, cc) ==
    LET c == CallInference(s, o, out)
        caught == IF LoadModelAndProcessor(s, out).raised THEN err
                  ELSE c.raised
    IN  IF caught = "OutOfMemoryError"
        THEN [s |-> ClearCacheOp(c.s), ok |-> FALSE,
              raised |-> IF cc = "ok" THEN "none" ELSE "RuntimeError"]
        ELSE [s |-> c.s, ok |-> caught = "none", raised |-> "none"]

\* Python's seq[:k]: the first k items, or all but the last -k when k < 0.
PySliceTo(seq, k) ==
    IF k >= 0
    THEN SubSeq(seq, 1, Min(k, Len(seq)))
    ELSE SubSeq(seq, 1, Max(0, Len(seq) + k))

\* ------------------------------------------------------------------ events
NoInt == 0 - 1

Event(type) ==
    [type |-> type, image_path |-> NoInt, index |-> NoInt, total |-> NoInt,
     status |-> "", text |-> "", total_found |-> NoInt, processed |-> NoInt,
     successful |-> NoInt, failed |-> NoInt]

\* Mutant: the metadata event counts the files found as processed.
MetadataEventCountsFound(total_found) ==
    [Event("metadata") EXCEPT !.total_found = total_found,
                              !.processed = total_found, !.successful = 0,
                              !.failed = 0]

\* api.py 390-398
MetadataEvent(total_found) ==
    [Event("metadata") EXCEPT !.total_found = total_found, !.processed = 0,
                              !.successful = 0, !.failed = 0]

\* api.py 381-386
EmptyCompleteEvent ==
    [Event("complete") EXCEPT !.total_found = 0]

\* api.py 410-415
StartEvent(path, index, total) ==
    [Event("start") EXCEPT !.image_path = path, !.index = index, !.total = total]

\* The entry appended to process_folder's results for one item.
ItemResult(path, c) ==
    IF c.raised = "none"
    THEN [Event("") EXCEPT !.image_path = path, !.status = "success",
                           !.text = c.response]
    ELSE [Event("") EXCEPT !.image_path = path, !.status = "error",
                           !.text = c.raised]

\* Mutant: an item whose call raised yields no result event.
ResultEventsDropError(path, c) ==
    IF c.raised = "none" /\ c.response = "description"
    THEN <<[ItemResult(path, c) EXCEPT !.type = "result"]>>
    ELSE <<>>

\* The result event(s) the folder stream yields for one item.
ResultEvents(path, c) ==
    <<[ItemResult(path, c) EXCEPT !.type = "result"]>>

\* Mutant: the final summary carries a non-terminal type tag.
CompleteEventAsResult(n, succ) ==
    [Event("result") EXCEPT !.processed = n, !.successful = succ,
                            !.failed = n - succ]

\* Mutant: the final summary reports every processed item as failed.
CompleteEventAllFailed(n, succ) ==
    [Event("complete") EXCEPT !.processed = n, !.successful = succ,
                              !.failed = n]

\* api.py 439-444
CompleteEvent(n, succ) ==
    [Event("complete") EXCEPT !.processed = n, !.successful = succ,
                              !.failed = n - succ]

\* Mutant: the failure is reported as the result of an item.
ErrorEventAsResult(err) ==
    [Event("result") EXCEPT !.status = "error", !.text = err]

\* api.py 447-450 and 269-273
ErrorEvent(err) ==
    [Event("error") EXCEPT !.text = err]

\* The single-item stream's events (api.py 232-265).
SingleEvent(type, c) ==
    IF type = "result"
    THEN [Event("result") EXCEPT !.status = "success", !.text = c.response]
    ELSE Event(type)

Types(evs) == [i \in 1 .. Len(evs) |-> evs[i].type]

\* --------------------------------------------------------- the idle server
Paths(n) == [i \in 1 .. n |-> i]

ResetRequest(k, n, cap) ==
    /\ kind' = k
    /\ image_paths' = Paths(n)
    /\ max_images' = cap
    /\ images_to_process' = <<>>
    /\ idx' = 0
    /\ successful' = 0
    /\ processed' = NoInt
    /\ failed' = NoInt
    /\ results' = <<>>
    /\ events' = <<>>
    /\ attempted' = <<>>
    /\ raised' = "none"
    /\ nraised' = 0

Idle == pc = "idle"

\* The handler has returned (or its generator is exhausted): the server is
\* idle again and the request's locals are gone.
EndRequest ==
    /\ pc = "done"
    /\ ResetRequest("none", 0, 0)
    /\ pc' = "idle"
    /\ request' = NoRequest
    /\ response' = NoResponse
    /\ listed' = FALSE
    /\ UNCHANGED <<resVars, thrVars>>
    /\ UNCHANGED <<tileVars, asyncVars>>

\* ImageProcessor.reload_model() called between requests.
ReloadModel(new_model_id, out) ==
    /\ Idle
    /\ image_processor = "ImageProcessor"
    /\ nloads < MaxLoads
    /\ SetSelf(ReloadModelOp(Self, new_model_id, out).s)
    /\ acq' = <<>>
    /\ UNCHANGED <<image_processor, reqVars, thrVars>>
    /\ UNCHANGED <<tileVars, httpVars, asyncVars>>

\* ------------------------------------------------- process_images_batch
\* Mutant: only the empty list is rejected, the cap is not checked.
ValidateBatchInputsNoCap(paths, num_images) ==
    IF Len(paths) = 0 THEN "ValueError" ELSE "none"

\* ImageProcessor._validate_batch_inputs.
ValidateBatchInputs(paths, num_images) ==
    IF Len(paths) = 0 THEN "ValueError"
    ELSE IF num_images <= 0 THEN "ValueError"
    ELSE "none"

BatchValidate ==
    /\ pc = "b_validate"
    /\ raised' = ValidateBatchInputs(image_paths, max_images)
    /\ pc' = IF raised' = "none" THEN "b_acquire" ELSE "done"
    /\ UNCHANGED <<resVars, thrVars, kind, image_paths, max_images,
                   images_to_process, idx, successful, processed, failed,
                   results, events, attempted, nraised>>
    /\ UNCHANGED <<tileVars, httpVars, asyncVars>>

\* Mutant: the loop runs over the whole list.
TotalToProcessNoCap(num_images, paths) == Len(paths)

\* total_to_process = min(num_images, len(image_paths))
TotalToProcess(num_images, paths) == Min(num_images, Len(paths))

\* model, processor = self._ensure_models_loaded(), then the loop bound.
BatchAcquire(out) ==
    /\ pc = "b_acquire"
    /\ LET e == EnsureModelsLoaded(Self, out)
       IN  /\ SetSelf(e.s)
           /\ raised' = e.raised
           /\ pc' = IF e.raised = "none" THEN "b_loop" ELSE "done"
           /\ processed' = IF e.raised = "none"
                           THEN TotalToProcess(max_images, image_paths)
                           ELSE processed
    /\ UNCHANGED <<image_processor, acq, thrVars, kind, image_paths, max_images,
                   images_to_process, idx, successful, failed, results, events,
                   attempted, nraised>>
    /\ UNCHANGED <<tileVars, httpVars, asyncVars>>

\* One iteration of the loop: image_paths[i] goes through
\* _process_single_image and is counted when it returns True; an exception
\* that leaves _process_single_image leaves process_images_batch too.
BatchItem(o, out, err, cc) ==
    /\ pc = "b_loop"
    /\ idx < processed
    /\ LET r == ProcessSingleImage(Self, o, out, err, cc)
       IN  /\ SetSelf(r.s)
           /\ successful' = IF r.ok THEN successful + 1 ELSE successful
           /\ raised' = r.raised
           /\ pc' = IF r.raised = "none" THEN "b_loop" ELSE "done"
    /\ attempted' = Append(attempted, <<image_paths[idx + 1], o>>)
    /\ idx' = idx + 1
    /\ UNCHANGED <<image_processor, acq, thrVars, kind, image_paths,
                   max_images, images_to_process, processed, failed, results,
                   events, nraised>>
    /\ UNCHANGED <<tileVars, httpVars, asyncVars>>

\* After the loop: failed_count, the summary, and _handle_complete_failure
\* when nothing succeeded.
BatchSummary ==
    /\ pc = "b_loop"
    /\ idx >= processed
    /\ failed' = processed - successful
    /\ raised' = IF successful = 0 THEN "RuntimeError" ELSE "none"
    /\ nraised' = IF successful = 0 THEN nraised + 1 ELSE nraised
    /\ pc' = "done"
    /\ UNCHANGED <<resVars, thrVars, kind, image_paths, max_images,
                   images_to_process, idx, successful, processed, results,
                   events, attempted>>
    /\ UNCHANGED <<tileVars, httpVars, asyncVars>>

\* ---------------------------------------------------------- process_folder
\* get_list_images and the early return for an empty listing.
FolderList ==
    /\ pc = "f_list"
    /\ pc' = IF Len(image_paths) = 0 THEN "done" ELSE "f_acquire"
    /\ UNCHANGED <<resVars, thrVars, kind, image_paths, max_images,
                   images_to_process, idx, successful, processed, failed,
                   results, events, attempted, raised, nraised>>
    /\ UNCHANGED <<tileVars, httpVars, asyncVars>>

\* _ensure_models_loaded, then images_to_process = image_paths[:max_images];
\* an exception becomes HTTP 500 in the outer except.
FolderAcquire(out) ==
    /\ pc = "f_acquire"
    /\ LET e == EnsureModelsLoaded(Self, out)
       IN  /\ SetSelf(e.s)
           /\ raised' = IF e.raised = "none" THEN "none" ELSE "HTTP500"
           /\ pc' = IF e.raised = "none" THEN "f_loop" ELSE "done"
           /\ images_to_process' = IF e.raised = "none"
                                   THEN PySliceTo(image_paths, max_images)
                                   ELSE images_to_process
    /\ UNCHANGED <<image_processor, acq, thrVars, kind, image_paths, max_images,
                   idx, successful, processed, failed, results, events,
                   attempted, nraised>>
    /\ UNCHANGED <<tileVars, httpVars, asyncVars>>

\* One iteration of the loop of process_folder.
FolderItem(o, out) ==
    /\ pc = "f_loop"
    /\ idx < Len(images_to_process)
    /\ LET path == images_to_process[idx + 1]
           c == CallInference(Self, o, out)
       IN  /\ SetSelf(c.s)
           /\ results' = Append(results, ItemResult(path, c))
           /\ successful' = IF c.raised = "none" THEN successful + 1
                            ELSE successful
           /\ attempted' = Append(attempted, <<path, o>>)
    /\ idx' = idx + 1
    /\ UNCHANGED <<image_processor, acq, thrVars, kind, pc, image_paths,
                   max_images, images_to_process, processed, failed, events,
                   raised, nraised>>
    /\ UNCHANGED <<tileVars, httpVars, asyncVars>>

\* The response of process_folder.
FolderReturn ==
    /\ pc = "f_loop"
    /\ idx >= Len(images_to_process)
    /\ processed' = Len(images_to_process)
    /\ failed' = Len(images_to_process) - successful
    /\ pc' = "done"
    /\ UNCHANGED <<resVars, thrVars, kind, image_paths, max_images,
                   images_to_process, idx, successful, results, events,
                   attempted, raised, nraised>>
    /\ UNCHANGED <<tileVars, httpVars, asyncVars>>

\* --------------------------------------------------- process_folder_stream
\* The generator up to its first yield: the listing, then either the
\* complete event of an empty folder or the metadata event.
FsList ==
    /\ pc = "fs_list"
    /\ IF Len(image_paths) = 0
       THEN /\ events' = Append(events, EmptyCompleteEvent)
            /\ pc' = "done"
       ELSE /\ events' = Append(events, MetadataEvent(Len(image_paths)))
            /\ pc' = "fs_acquire"
    /\ UNCHANGED <<resVars, thrVars, kind, image_paths, max_images,
                   images_to_process, idx, successful, processed, failed,
                   results, attempted, raised, nraised>>
    /\ UNCHANGED <<tileVars, httpVars, asyncVars>>

\* _ensure_models_loaded and the slice; an exception reaches the outer except
\* clause, which yields the error event and ends the generator.
FsAcquire(out) ==
    /\ pc = "fs_acquire"
    /\ LET e == EnsureModelsLoaded(Self, out)
       IN  /\ SetSelf(e.s)
           /\ IF e.raised = "none"
              THEN /\ images_to_process' = PySliceTo(image_paths, max_images)
                   /\ pc' = "fs_loop"
                   /\ events' = events
              ELSE /\ images_to_process' = images_to_process
                   /\ pc' = "done"
                   /\ events' = Append(events, ErrorEvent(e.raised))
    /\ UNCHANGED <<image_processor, acq, thrVars, kind, image_paths, max_images,
                   idx, successful, processed, failed, results, attempted,
                   raised, nraised>>
    /\ UNCHANGED <<tileVars, httpVars, asyncVars>>

\* The generator is resumed at the yield it stopped at. After the result
\* yield of the try block (api.py 421-426) `successful += 1` runs (428); after
\* the metadata yield or the result yield of the except clause it does not.
SuccessfulOnResume ==
    IF /\ Len(events) > 0
       /\ events[Len(events)].type = "result"
       /\ events[Len(events)].status = "success"
    THEN successful + 1
    ELSE successful

\* From the previous yield to the start event of the next item.
FsStart ==
    /\ pc = "fs_loop"
    /\ idx < Len(images_to_process)
    /\ successful' = SuccessfulOnResume
    /\ events' = Append(events, StartEvent(images_to_process[idx + 1], idx + 1,
                                           Len(images_to_process)))
    /\ pc' = "fs_item"
    /\ UNCHANGED <<resVars, thrVars, kind, image_paths, max_images,
                   images_to_process, idx, processed, failed,
                   results, attempted, raised, nraised>>
    /\ UNCHANGED <<tileVars, httpVars, asyncVars>>

\* The inference call of the started item and the yield of its result
\* event; the generator stops at the yield, the success is not counted yet.
FsResult(o, out) ==
    /\ pc = "fs_item"
    /\ LET path == images_to_process[idx + 1]
           c == CallInference(Self, o, out)
       IN  /\ SetSelf(c.s)
           /\ events' = events \o ResultEvents(path, c)
           /\ attempted' = Append(attempted, <<path, o>>)
    /\ idx' = idx + 1
    /\ pc' = "fs_loop"
    /\ UNCHANGED <<image_processor, acq, thrVars, kind, image_paths, max_images,
                   images_to_process, successful, processed, failed, results,
                   raised, nraised>>
    /\ UNCHANGED <<tileVars, httpVars, asyncVars>>

\* From the previous yield to the final summary event.
FsComplete ==
    /\ pc = "fs_loop"
    /\ idx >= Len(images_to_process)
    /\ successful' = SuccessfulOnResume
    /\ processed' = Len(images_to_process)
    /\ failed' = Len(images_to_process) - SuccessfulOnResume
    /\ events' = Append(events, CompleteEvent(Len(images_to_process),
                                              SuccessfulOnResume))
    /\ pc' = "done"
    /\ UNCHANGED <<resVars, thrVars, kind, image_paths, max_images,
                   images_to_process, idx, results, attempted,
                   raised, nraised>>
    /\ UNCHANGED <<tileVars, httpVars, asyncVars>>

\* --------------------------------------------- process_single_image_stream
\* Mutant: the except clause yields a complete event after the error event.
SingleErrorEventsThenComplete(err) ==
    <<ErrorEvent(err), Event("complete")>>

\* The except clause of the single-item generator: one error event, after
\* which the generator ends.
SingleErrorEvents(err) ==
    <<ErrorEvent(err)>>

\* The temporary directory and the copy of the upload (which the file system
\* may refuse), then the start event.
SsSave(save_ok) ==
    /\ pc = "ss_save"
    /\ IF save_ok
       THEN /\ events' = Append(events, SingleEvent("start", <<>>))
            /\ pc' = "ss_acquire"
       ELSE /\ events' = events \o SingleErrorEvents("OSError")
            /\ pc' = "done"
    /\ UNCHANGED <<resVars, thrVars, kind, image_paths, max_images,
                   images_to_process, idx, successful, processed, failed,
                   results, attempted, raised, nraised>>
    /\ UNCHANGED <<tileVars, httpVars, asyncVars>>

\* _ensure_models_loaded, then the processing event.
SsAcquire(out) ==
    /\ pc = "ss_acquire"
    /\ LET e == EnsureModelsLoaded(Self, out)
       IN  /\ SetSelf(e.s)
           /\ IF e.raised = "none"
              THEN /\ events' = Append(events, SingleEvent("processing", <<>>))
                   /\ pc' = "ss_infer"
              ELSE /\ events' = events \o SingleErrorEvents(e.raised)
                   /\ pc' = "done"
    /\ UNCHANGED <<image_processor, acq, thrVars, kind, image_paths, max_images,
                   images_to_process, idx, successful, processed, failed,
                   results, attempted, raised, nraised>>
    /\ UNCHANGED <<tileVars, httpVars, asyncVars>>

\* The inference call and the result event.
SsResult(o, out) ==
    /\ pc = "ss_infer"
    /\ LET c == CallInference(Self, o, out)
       IN  /\ SetSelf(c.s)
           /\ IF c.raised = "none"
              THEN /\ events' = Append(events, SingleEvent("result", c))
                   /\ pc' = "ss_complete"
              ELSE /\ events' = events \o SingleErrorEvents(c.raised)
                   /\ pc' = "done"
    /\ attempted' = Append(attempted, <<1, o>>)
    /\ UNCHANGED <<image_processor, acq, thrVars, kind, image_paths, max_images,
                   images_to_process, idx, successful, processed, failed,
                   results, raised, nraised>>
    /\ UNCHANGED <<tileVars, httpVars, asyncVars>>

\* The complete event, the last statement of the try block.
SsComplete ==
    /\ pc = "ss_complete"
    /\ events' = Append(events, SingleEvent("complete", <<>>))
    /\ pc' = "done"
    /\ UNCHANGED <<resVars, thrVars, kind, image_paths, max_images,
                   images_to_process, idx, successful, processed, failed,
                   results, attempted, raised, nraised>>
    /\ UNCHANGED <<tileVars, httpVars, asyncVars>>

\* ------------------------------------------------------ strings as sequences
\* The characters the paths and content types of the model are written in,
\* with their ASCII codes.
AsciiCodes ==
    <<<<"%", 37>>, <<".", 46>>, <<"/", 47>>, <<"G", 71>>, <<"J", 74>>,
      <<"P", 80>>, <<"a", 97>>, <<"e", 101>>, <<"g", 103>>, <<"j", 106>>,
      <<"n", 110>>, <<"p", 112>>, <<"t", 116>>, <<"x", 120>>>>

\* The value of a hexadecimal digit, -1 for any other character.
HexDigit(c) ==
    LET digits == <<"0", "1", "2", "3", "4", "5", "6", "7", "8", "9">>
        lower == <<"a", "b", "c", "d", "e", "f">>
        upper == <<"A", "B", "C", "D", "E", "F">>
    IN  IF \E i \in 1 .. 10 : digits[i] = c
        THEN (CHOOSE i \in 1 .. 10 : digits[i] = c) - 1
        ELSE IF \E i \in 1 .. 6 : lower[i] = c
        THEN (CHOOSE i \in 1 .. 6 : lower[i] = c) + 9
        ELSE IF \E i \in 1 .. 6 : upper[i] = c
        THEN (CHOOSE i \in 1 .. 6 : upper[i] = c) + 9
        ELSE 0 - 1

\* chr(code), for the codes of AsciiCodes; "?" stands for every other
\* character.
Chr(code) ==
    IF \E i \in 1 .. Len(AsciiCodes) : AsciiCodes[i][2] = code
    THEN AsciiCodes[CHOOSE i \in 1 .. Len(AsciiCodes) : AsciiCodes[i][2] = code][1]
    ELSE "?"

\* urllib.parse.unquote from position i on: "%" followed by two hexadecimal
\* digits is the character of that code, any other character stands for
\* itself.
RECURSIVE UnquoteFrom(_, _)
UnquoteFrom(s, i) ==
    IF i > Len(s) THEN <<>>
    ELSE IF /\ s[i] = "%"
            /\ i + 2 <= Len(s)
            /\ HexDigit(s[i + 1]) >= 0
            /\ HexDigit(s[i + 2]) >= 0
    THEN <<Chr(16 * HexDigit(s[i + 1]) + HexDigit(s[i + 2]))>>
             \o UnquoteFrom(s, i + 3)
    ELSE <<s[i]>> \o UnquoteFrom(s, i + 1)

Unquote(s) == UnquoteFrom(s, 1)

\* os.path.isabs on POSIX
IsAbs(s) == Len(s) > 0 /\ s[1] = "/"

\* str.lower, on the letters of the model
Lower(s) ==
    LET upper == <<"A", "B", "C", "D", "E", "F", "G", "J", "P">>
        lower == <<"a", "b", "c", "d", "e", "f", "g", "j", "p">>
    IN  [i \in 1 .. Len(s) |->
            IF \E k \in 1 .. Len(upper) : upper[k] = s[i]
            THEN lower[CHOOSE k \in 1 .. Len(upper) : upper[k] = s[i]]
            ELSE s[i]]

\* str.startswith / str.endswith with one prefix or suffix
StartsWith(s, prefix) ==
    Len(s) >= Len(prefix) /\ SubSeq(s, 1, Len(prefix)) = prefix

EndsWith(s, suffix) ==
    /\ Len(s) >= Len(suffix)
    /\ SubSeq(s, Len(s) - Len(suffix) + 1, Len(s)) = suffix

\* ------------------------------------------------------------- serve_image
\* api.py 495
allowed_extensions ==
    {<<".", "j", "p", "g">>, <<".", "j", "p", "e", "g">>,
     <<".", "p", "n", "g">>, <<".", "g", "i", "f">>, <<".", "b", "m", "p">>,
     <<".", "t", "i", "f", "f">>, <<".", "w", "e", "b", "p">>,
     <<".", "h", "e", "i", "c">>}

\* What the file system holds at a path: nothing, a regular file, a directory
\* or another kind of entry.
FileKinds == {"missing", "file", "dir", "fifo"}

\* The image_path values a client sends:
\*   /a.jpg  /a.JPG  a.jpg  %2Fa.jpg  /a%2Ejpg  /a.txt  /a  /jpg  (empty)
\*   /a.jpeg  /a.png%25  /a.jpg%2f  /a%2  %2fa.PnG
ImagePaths ==
    {<<"/", "a", ".", "j", "p", "g">>,
     <<"/", "a", ".", "J", "P", "G">>,
     <<"a", ".", "j", "p", "g">>,
     <<"%", "2", "F", "a", ".", "j", "p", "g">>,
     <<"/", "a", "%", "2", "E", "j", "p", "g">>,
     <<"/", "a", ".", "t", "x", "t">>,
     <<"/", "a">>,
     <<"/", "j", "p", "g">>,
     <<>>,
     <<"/", "a", ".", "j", "p", "e", "g">>,
     <<"/", "a", ".", "p", "n", "g", "%", "2", "5">>,
     <<"/", "a", ".", "j", "p", "g", "%", "2", "f">>,
     <<"/", "a", "%", "2">>,
     <<"%", "2", "f", "a", ".", "P", "n", "G">>}

\* raise HTTPException(status_code, detail)
HTTPException(status_code, detail) ==
    [NoResponse EXCEPT !.status_code = status_code, !.detail = detail]

\* return FileResponse(decoded_path)
FileResponse(path) ==
    [NoResponse EXCEPT !.status_code = 200, !.file = path]

\* The try block of serve_image (api.py 481-499).
ServeImageTry(image_path, on_disk) ==
    LET decoded_path == Unquote(image_path)
    IN  IF ~IsAbs(decoded_path)
        THEN HTTPException(400, "Only absolute paths are allowed")
        ELSE IF on_disk = "missing"
        THEN HTTPException(404, "Image not found")
        ELSE IF on_disk # "file"
        THEN HTTPException(400, "Path is not a file")
        ELSE IF ~\E ext \in allowed_extensions :
                    EndsWith(Lower(decoded_path), ext)
        THEN HTTPException(400, "File is not an image")
        ELSE FileResponse(decoded_path)

\* Mutant: the HTTP errors of the try block fall into `except Exception`.
ServeImageExceptRemaps(r) ==
    IF r.status_code >= 400
    THEN HTTPException(500, "Error serving image")
    ELSE r

\* The except clauses of serve_image (api.py 501-504): an HTTPException is
\* raised again as it is; nothing else is raised by the try block.
ServeImageExcept(r) == r

\* GET /image/{image_path}: the whole handler.
ServeImage(image_path, on_disk) ==
    /\ Idle
    /\ ResetRequest("serve_image", 0, 0)
    /\ pc' = "done"
    /\ request' = [NoRequest EXCEPT !.path = image_path, !.on_disk = on_disk]
    /\ response' = ServeImageExcept(ServeImageTry(image_path, on_disk))
    /\ UNCHANGED <<resVars, thrVars, tileVars, listed, asyncVars>>

\* --------------------------------------------------- preview_folder_images
\* The folder_path values a client sends: /a and a.
FolderPaths == {<<"/", "a">>, <<"a">>}

\* The extension values a client sends (FolderRequest.extension).
Extensions == {"jpg", "png"}

\* The value preview_folder_images returns (api.py 467-472).
PreviewResponse(folder_path, extension, paths) ==
    [NoResponse EXCEPT !.status_code = 200, !.folder_path = folder_path,
                       !.extension = extension, !.total_found = Len(paths),
                       !.image_paths = paths]

\* Mutant: the folder is listed before its path is checked.
PreviewFolderListsFirst(folder_path, extension, on_disk, n) ==
    LET paths == Paths(n)
    IN  IF on_disk = "missing"
        THEN [response |-> HTTPException(404, "Folder not found"),
              listed |-> TRUE, image_paths |-> paths]
        ELSE IF on_disk # "dir"
        THEN [response |-> HTTPException(400, "Path is not a directory"),
              listed |-> TRUE, image_paths |-> paths]
        ELSE [response |-> PreviewResponse(folder_path, extension, paths),
              listed |-> TRUE, image_paths |-> paths]

\* The body of preview_folder_images (api.py 457-475) for a folder whose
\* listing holds n matching files: the two checks of the path, then
\* get_list_images, which does not raise.
PreviewFolder(folder_path, extension, on_disk, n) ==
    IF on_disk = "missing"
    THEN [response |-> HTTPException(404, "Folder not found"),
          listed |-> FALSE, image_paths |-> <<>>]
    ELSE IF on_disk # "dir"
    THEN [response |-> HTTPException(400, "Path is not a directory"),
          listed |-> FALSE, image_paths |-> <<>>]
    ELSE [response |-> PreviewResponse(folder_path, extension, Paths(n)),
          listed |-> TRUE, image_paths |-> Paths(n)]

\* POST /preview/folder: the whole handler. Only a directory holds files.
PreviewFolderImages(folder_path, extension, on_disk, n) ==
    /\ Idle
    /\ on_disk # "dir" => n = 0
    /\ LET r == PreviewFolder(folder_path, extension, on_disk, n)
       IN  /\ ResetRequest("preview_folder", Len(r.image_paths), 0)
           /\ response' = r.response
           /\ listed' = r.listed
    /\ pc' = "done"
    /\ request' = [NoRequest EXCEPT !.path = folder_path, !.on_disk = on_disk,
                                    !.extension = extension]
    /\ UNCHANGED <<resVars, thrVars, tileVars, asyncVars>>

\* ---------------------------------------- process_single_image (POST)
\* The content types a client sends with the upload: None, the empty string,
\*   image/png  image/  text/png  image  IMAGE/png
ContentTypes ==
    {NoString,
     <<>>,
     <<"i", "m", "a", "g", "e", "/", "p", "n", "g">>,
     <<"i", "m", "a", "g", "e", "/">>,
     <<"t", "e", "x", "t", "/", "p", "n", "g">>,
     <<"i", "m", "a", "g", "e">>,
     <<"I", "M", "A", "G", "E", "/", "p", "n", "g">>}

\* The names of the uploaded file.
Filenames == {"test.jpg", "a.png"}

\* Mutant: only a missing content type is refused.
ContentTypeRejectedMissingOnly(content_type) ==
    content_type = NoString \/ Len(content_type) = 0

\* not file.content_type or not file.content_type.startswith('image/')
ContentTypeRejected(content_type) ==
    \/ content_type = NoString
    \/ Len(content_type) = 0
    \/ ~StartsWith(content_type, <<"i", "m", "a", "g", "e", "/">>)

\* detail of the HTTPException of api.py 177, per class of the exception.
ServerErrorDetail(err) ==
    IF err = "OSError"
    THEN "Error processing image: OSError"
    ELSE "Error processing image: RuntimeError"

\* The value process_single_image returns (api.py 170-174).
SingleImageResponse(filename, description) ==
    [NoResponse EXCEPT !.status_code = 200, !.filename = filename,
                       !.status = "success", !.description = description]

\* The try block of process_single_image and its except clause (api.py
\* 138-177): the upload is saved, the model acquired, inference run and its
\* text returned; any exception becomes a 500. `called` tells whether the
\* inference call was reached.
ProcessSingleImageTry(s, filename, save_ok, o, out) ==
    LET e == EnsureModelsLoaded(s, out)
        c == CallInference(e.s, o, out)
    IN  IF ~save_ok
        THEN [s |-> s, raised |-> "OSError", called |-> FALSE,
              response |-> HTTPException(500, ServerErrorDetail("OSError"))]
        ELSE IF e.raised # "none"
        THEN [s |-> e.s, raised |-> e.raised, called |-> FALSE,
              response |-> HTTPException(500, ServerErrorDetail(e.raised))]
        ELSE IF c.raised # "none"
        THEN [s |-> c.s, raised |-> c.raised, called |-> TRUE,
              response |-> HTTPException(500, ServerErrorDetail(c.raised))]
        ELSE [s |-> c.s, raised |-> "none", called |-> TRUE,
              response |-> SingleImageResponse(filename, c.response)]

\* POST /process/image: the whole handler. The content type is checked before
\* the try block; `raised` records the exception the except clause caught.
ProcessSingleImageEndpoint(content_type, filename, save_ok, o, out) ==
    /\ Idle
    /\ image_processor = "ImageProcessor"
    /\ nloads < MaxLoads
    /\ request' = [NoRequest EXCEPT !.content_type = content_type,
                                    !.filename = filename]
    /\ kind' = "single_image"
    /\ pc' = "done"
    /\ IF ContentTypeRejected(content_type)
       THEN /\ response' = HTTPException(400, "File must be an image")
            /\ raised' = "none"
            /\ attempted' = <<>>
            /\ UNCHANGED <<model_id, model, tokenizer, is_loaded, nloads,
                           nclears, nsets>>
       ELSE LET r == ProcessSingleImageTry(Self, filename, save_ok, o, out)
            IN  /\ response' = r.response
                /\ raised' = r.raised
                /\ attempted' = IF r.called THEN <<<<1, o>>>> ELSE <<>>
                /\ SetSelf(r.s)
    /\ UNCHANGED <<image_processor, acq, thrVars, tileVars, listed, asyncVars,
                   image_paths, max_images, images_to_process, idx, successful,
                   processed, failed, results, events, nraised>>

\* ------------------------------------------------- the entry of a handler
\* The HTTPException a handler raises before its try block or before its
\* generator exists: the folder handlers check the path (api.py 298-302,
\* 362-366), the upload stream checks the content type (202-204);
\* process_images_batch has no such check.
EntryError(k, on_disk, content_type) ==
    IF k \in {"folder", "folder_stream"} /\ on_disk = "missing"
    THEN "HTTP404"
    ELSE IF k \in {"folder", "folder_stream"} /\ on_disk # "dir"
    THEN "HTTP400"
    ELSE IF k = "single_stream" /\ ContentTypeRejected(content_type)
    THEN "HTTP400"
    ELSE "none"

\* A caller invokes process_images_batch(image_paths, num_images) on the
\* processor, or a client calls one of the folder endpoints or the upload
\* stream; the handlers' ensure_image_processor_initialized finds the global
\* set. on_disk is what the file system holds at folder_path, content_type
\* is the upload's; a handler that raises at its entry is done at once.
StartRequest(k, n, cap, on_disk, content_type) ==
    /\ Idle
    /\ image_processor = "ImageProcessor"
    /\ nloads < MaxLoads
    /\ kind' = k
    /\ image_paths' = Paths(n)
    /\ max_images' = cap
    /\ images_to_process' = <<>>
    /\ idx' = 0
    /\ successful' = 0
    /\ processed' = NoInt
    /\ failed' = NoInt
    /\ results' = <<>>
    /\ events' = <<>>
    /\ attempted' = <<>>
    /\ nraised' = 0
    /\ raised' = EntryError(k, on_disk, content_type)
    /\ pc' = IF EntryError(k, on_disk, content_type) # "none" THEN "done"
             ELSE CASE k = "batch" -> "b_validate"
                    [] k = "folder" -> "f_list"
                    [] k = "folder_stream" -> "fs_list"
                    [] OTHER -> "ss_save"
    /\ UNCHANGED <<resVars, thrVars>>
    /\ UNCHANGED <<tileVars, httpVars, asyncVars>>

\* ------------------------------------------------------- the specification
Threads == 1 .. NumThreads

\* The server after its lifespan startup: ensure_image_processor_initialized
\* has constructed the processor, whose __post_init__ loaded the default model.
Init ==
    /\ image_processor = "ImageProcessor"
    /\ model_id = DefaultModelId
    /\ model = Handle(DefaultModelId, 1)
    /\ tokenizer = Handle(DefaultModelId, 1)
    /\ is_loaded = TRUE
    /\ nloads = 1
    /\ acq = <<>>
    /\ kind = "none"
    /\ pc = "idle"
    /\ image_paths = <<>>
    /\ max_images = 0
    /\ images_to_process = <<>>
    /\ idx = 0
    /\ successful = 0
    /\ processed = NoInt
    /\ failed = NoInt
    /\ results = <<>>
    /\ events = <<>>
    /\ attempted = <<>>
    /\ raised = "none"
    /\ nraised = 0
    /\ tpc = [t \in Threads |-> "idle"]
    /\ tseen = [t \in Threads |-> NoHandle]
    /\ tself = [t \in Threads |-> NewSelf(DefaultModelId, 0)]
    /\ tbound = [t \in Threads |-> "none"]
    /\ inflight = [t \in Threads |-> 0]
    /\ ninstances = 1
    /\ nclears = 0
    /\ nsets = 0
    /\ TileIdle
    /\ HttpIdle
    /\ AsyncIdle

Next ==
    \/ \E n \in 0 .. MaxImages, cap \in Caps :
          StartRequest("batch", n, cap, "dir", NoString)
    \/ \E k \in {"folder", "folder_stream"}, n \in 0 .. MaxImages,
          cap \in Caps, on_disk \in FileKinds :
          (on_disk # "dir" => n = 0) /\ StartRequest(k, n, cap, on_disk, NoString)
    \/ \E content_type \in ContentTypes :
          StartRequest("single_stream", 1, 1, "file", content_type)
    \/ EndRequest
    \/ \E id \in ModelIds \cup {""}, out \in LoadOutcomes : ReloadModel(id, out)
    \/ BatchValidate
    \/ \E out \in LoadOutcomes : BatchAcquire(out)
    \/ \E o \in Outcomes, out \in LoadOutcomes, err \in LoadErrors,
          cc \in ClearCacheOutcomes : BatchItem(o, out, err, cc)
    \/ BatchSummary
    \/ FolderList
    \/ \E out \in LoadOutcomes : FolderAcquire(out)
    \/ \E o \in Outcomes, out \in LoadOutcomes : FolderItem(o, out)
    \/ FolderReturn
    \/ FsList
    \/ \E out \in LoadOutcomes : FsAcquire(out)
    \/ FsStart
    \/ \E o \in Outcomes, out \in LoadOutcomes : FsResult(o, out)
    \/ FsComplete
    \/ \E ok \in BOOLEAN : SsSave(ok)
    \/ \E out \in LoadOutcomes : SsAcquire(out)
    \/ \E o \in Outcomes, out \in LoadOutcomes : SsResult(o, out)
    \/ SsComplete
    \/ \E image_path \in ImagePaths, on_disk \in FileKinds :
          ServeImage(image_path, on_disk)
    \/ \E folder_path \in FolderPaths, extension \in Extensions,
          on_disk \in FileKinds, n \in 0 .. MaxImages :
          PreviewFolderImages(folder_path, extension, on_disk, n)
    \/ \E content_type \in ContentTypes, filename \in Filenames,
          save_ok \in BOOLEAN, o \in Outcomes, out \in LoadOutcomes :
          ProcessSingleImageEndpoint(content_type, filename, save_ok, o, out)

Spec == Init /\ [][Next]_vars

\* ------------------------------------------------------------ properties
StreamKinds == {"folder_stream", "single_stream"}

\* The request is a stream: the handler did not raise at its entry and
\* returned its StreamingResponse.
Streaming(k) == kind = k /\ raised = "none"

Terminal(e) == e.type \in {"complete", "error"}

FailedOutcome(a) == a[2] # "ok"

\* Positions of the result events of a stream, in emission order.
ResultEventsOf(evs) == SelectSeq(evs, LAMBDA e : e.type = "result")

\* C1: a folder stream that attempted n >= 1 items has emitted exactly
\* metadata, then start and result of each attempted item in input order,
\* then complete: 2n+2 events, whatever the items' outcomes.
C1_FolderStreamEvents ==
    (kind = "folder_stream" /\ pc = "done" /\ Len(attempted) >= 1) =>
        LET n == Len(attempted)
        IN  /\ Len(events) = 2 * n + 2
            /\ events[1].type = "metadata"
            /\ \A k \in 1 .. n :
                  /\ attempted[k][1] = image_paths[k]
                  /\ events[2 * k].type = "start"
                  /\ events[2 * k].image_path = image_paths[k]
                  /\ events[2 * k + 1].type = "result"
                  /\ events[2 * k + 1].image_path = image_paths[k]
            /\ events[2 * n + 2].type = "complete"

\* A finished 3-item folder stream with a failing and a succeeding item.
C1_Witness ==
    /\ kind = "folder_stream"
    /\ pc = "done"
    /\ Len(attempted) = 3
    /\ Len(events) = 8
    /\ \E k \in 1 .. 3 : FailedOutcome(attempted[k])
    /\ \E k \in 1 .. 3 : ~FailedOutcome(attempted[k])

\* C2: a batch whose attempted items all fail raises the batch-level failure
\* exactly once, with 0 successes and N failures tallied.
C2_AllFailRaisesOnce ==
    (/\ kind = "batch"
     /\ pc = "done"
     /\ Len(attempted) >= 1
     /\ \A k \in 1 .. Len(attempted) : FailedOutcome(attempted[k])) =>
        /\ nraised = 1
        /\ raised = "RuntimeError"
        /\ successful = 0
        /\ failed = Len(attempted)

\* C3: an attempted item whose inference fails is reported with status error
\* and is not counted as a success.
C3_FailureReportedAsError ==
    /\ kind = "folder" =>
          \A k \in 1 .. Len(results) :
              FailedOutcome(attempted[k]) => results[k].status = "error"
    /\ kind = "folder_stream" =>
          \A k \in 1 .. Len(ResultEventsOf(events)) :
              FailedOutcome(attempted[k]) =>
                  ResultEventsOf(events)[k].status = "error"
    /\ kind = "batch" =>
          successful <=
              Cardinality({k \in 1 .. Len(attempted) : ~FailedOutcome(attempted[k])})

\* C4: when the loop of process_images_batch has ended, the number of items
\* attempted is min(N, len(list)) and successes + failures equal it.
C4_BatchTally ==
    /\ (kind = "batch" /\ pc = "b_loop") =>
          /\ Len(attempted) = idx
          /\ idx <= Min(max_images, Len(image_paths))
    /\ (kind = "batch" /\ pc = "done" /\ failed # NoInt) =>
          /\ Len(attempted) = Min(max_images, Len(image_paths))
          /\ successful + failed = Len(attempted)
          /\ processed = Len(attempted)

\* A finished batch whose cap was smaller than its list.
C4_Witness ==
    /\ kind = "batch"
    /\ pc = "done"
    /\ failed # NoInt
    /\ max_images = 2
    /\ Len(image_paths) = 3
    /\ Len(attempted) = 2

\* C5: for every integer max_images, the folder endpoints report
\* processed = min(max_images, total_found) and successful + failed = processed.
C5_FolderProcessedIsMin ==
    (kind \in {"folder", "folder_stream"} /\ pc = "done" /\ processed # NoInt) =>
        /\ processed = Min(max_images, Len(image_paths))
        /\ successful + failed = processed

\* C6: the attempted items are the first items of the list, in list order,
\* none skipped or repeated, min(N, len(list)) of them once the loop has
\* ended, and the recorded results are in the same order.
C6_PrefixInOrder ==
    kind \in {"batch", "folder", "folder_stream"} =>
        /\ Len(attempted) <= Len(image_paths)
        /\ \A k \in 1 .. Len(attempted) : attempted[k][1] = image_paths[k]
        /\ (pc = "done" /\ processed # NoInt) =>
              Len(attempted) = Min(max_images, Len(image_paths))
        /\ kind = "folder" =>
              /\ Len(results) = Len(attempted)
              /\ \A k \in 1 .. Len(results) :
                    results[k].image_path = image_paths[k]
        /\ kind = "folder_stream" =>
              LET res == ResultEventsOf(events)
              IN  /\ Len(res) = Len(attempted)
                  /\ \A k \in 1 .. Len(res) : res[k].image_path = image_paths[k]

\* C7 as stated: every run of the single-item stream emits start, processing,
\* one of result or error, and complete as its last event.
C7_Original ==
    (Streaming("single_stream") /\ pc = "done") =>
        Types(events) \in {<<"start", "processing", "result", "complete">>,
                           <<"start", "processing", "error", "complete">>}

\* C7 amended: a run without exception emits start, processing, result,
\* complete; a run in which an exception arises emits the events yielded
\* before it (a prefix of start, processing) and then error as its last
\* event, with no complete after it.
C7_SingleStreamOrder ==
    /\ (Streaming("single_stream") /\ pc = "done") =>
          Types(events) \in {<<"start", "processing", "result", "complete">>,
                             <<"error">>,
                             <<"start", "error">>,
                             <<"start", "processing", "error">>}
    /\ Streaming("single_stream") =>
          \E m \in 0 .. 4 :
              Types(events) = SubSeq(<<"start", "processing", "result", "complete">>, 1, m)
              \/ (m >= 1 /\ m <= 3 /\
                  Types(events) =
                      Append(SubSeq(<<"start", "processing">>, 1, m - 1), "error"))

\* A single-item stream ended by the failure of the acquisition.
C7_Witness ==
    /\ kind = "single_stream"
    /\ pc = "done"
    /\ Types(events) = <<"start", "error">>

\* C8: a stream that has run to its end has emitted exactly one terminal
\* event (complete or error), as its last event; nothing follows a terminal
\* event.
C8_OneTerminalLast ==
    (\E k \in StreamKinds : Streaming(k)) =>
        /\ \A i \in 1 .. Len(events) : Terminal(events[i]) => i = Len(events)
        /\ pc = "done" => (Len(events) >= 1 /\ Terminal(events[Len(events)]))
        /\ (Len(events) >= 1 /\ Terminal(events[Len(events)])) => pc = "done"

\* A folder stream ended by an error event and one ended by complete exist;
\* this is the one ended by the error of the acquisition.
C8_Witness ==
    /\ kind = "folder_stream"
    /\ pc = "done"
    /\ Types(events) = <<"metadata", "error">>

\* ------------------------------------- the resource's lifecycle, one caller
\* A process that has not yet constructed the processor (the module-level
\* global of api.py is None).
InitRes ==
    /\ image_processor = "None"
    /\ model_id = DefaultModelId
    /\ model = NoHandle
    /\ tokenizer = NoHandle
    /\ is_loaded = FALSE
    /\ nloads = 0
    /\ acq = <<>>
    /\ kind = "none"
    /\ pc = "idle"
    /\ image_paths = <<>>
    /\ max_images = 0
    /\ images_to_process = <<>>
    /\ idx = 0
    /\ successful = 0
    /\ processed = NoInt
    /\ failed = NoInt
    /\ results = <<>>
    /\ events = <<>>
    /\ attempted = <<>>
    /\ raised = "none"
    /\ nraised = 0
    /\ tpc = [t \in Threads |-> "idle"]
    /\ tseen = [t \in Threads |-> NoHandle]
    /\ tself = [t \in Threads |-> NewSelf(DefaultModelId, 0)]
    /\ tbound = [t \in Threads |-> "none"]
    /\ inflight = [t \in Threads |-> 0]
    /\ ninstances = 0
    /\ nclears = 0
    /\ nsets = 0
    /\ TileIdle
    /\ HttpIdle
    /\ AsyncIdle

\* History: the first and the latest acquisition that returned a handle since
\* the last reload, each with the load count before and after it.
RecordAcq(log, h, before, after) ==
    LET rec == [h |-> h, before |-> before, after |-> after]
    IN  IF Len(log) = 0 THEN <<rec>> ELSE <<log[1], rec>>

\* api.ensure_image_processor_initialized: constructs the processor when the
\* global is None; __post_init__ loads, and an exception leaves the global None.
ResEnsureInitialized(out) ==
    /\ image_processor = "None" => nloads < MaxLoads
    /\ IF image_processor = "None"
       THEN LET r == LoadModelAndProcessor(NewSelf(DefaultModelId, nloads), out)
            IN  /\ ninstances' = ninstances + 1
                /\ IF r.raised
                   THEN /\ image_processor' = "None"
                        /\ SetSelf(NewSelf(DefaultModelId, r.s.nloads))
                        /\ raised' = "Exception"
                   ELSE /\ image_processor' = "ImageProcessor"
                        /\ SetSelf(r.s)
                        /\ raised' = "none"
       ELSE /\ UNCHANGED <<image_processor, model_id, model, tokenizer,
                           is_loaded, nloads, ninstances, nclears, nsets>>
            /\ raised' = "none"
    /\ UNCHANGED <<acq, kind, pc, image_paths, max_images, images_to_process,
                   idx, successful, processed, failed, results, events,
                   attempted, nraised, tpc, tseen, tself, tbound, inflight>>
    /\ UNCHANGED <<tileVars, httpVars, asyncVars>>

\* A caller reads <processor>._ensure_models_loaded().
ResAcquire(out) ==
    /\ image_processor = "ImageProcessor"
    /\ is_loaded \/ nloads < MaxLoads
    /\ LET e == EnsureModelsLoaded(Self, out)
       IN  /\ SetSelf(e.s)
           /\ raised' = e.raised
           /\ acq' = IF e.raised = "none"
                     THEN RecordAcq(acq, e.value, nloads, e.s.nloads)
                     ELSE acq
    /\ UNCHANGED <<image_processor, kind, pc, image_paths, max_images,
                   images_to_process, idx, successful, processed, failed,
                   results, events, attempted, nraised, thrVars>>
    /\ UNCHANGED <<tileVars, httpVars, asyncVars>>

\* A caller reads <processor>.model.
ResGetModel(out) ==
    /\ image_processor = "ImageProcessor"
    /\ is_loaded \/ nloads < MaxLoads
    /\ LET m == ModelGetter(Self, out)
       IN  /\ SetSelf(m.s)
           /\ raised' = IF m.raised THEN "Exception" ELSE "none"
           /\ acq' = IF m.raised
                     THEN acq
                     ELSE RecordAcq(acq, m.value, nloads, m.s.nloads)
    /\ UNCHANGED <<image_processor, kind, pc, image_paths, max_images,
                   images_to_process, idx, successful, processed, failed,
                   results, events, attempted, nraised, thrVars>>
    /\ UNCHANGED <<tileVars, httpVars, asyncVars>>

\* A caller reads <processor>.tokenizer.
ResGetTokenizer(out) ==
    /\ image_processor = "ImageProcessor"
    /\ is_loaded \/ nloads < MaxLoads
    /\ LET t == TokenizerGetter(Self, out)
       IN  /\ SetSelf(t.s)
           /\ raised' = IF t.raised THEN "Exception" ELSE "none"
    /\ UNCHANGED <<image_processor, acq, kind, pc, image_paths, max_images,
                   images_to_process, idx, successful, processed, failed,
                   results, events, attempted, nraised, thrVars>>
    /\ UNCHANGED <<tileVars, httpVars, asyncVars>>

\* A caller invokes <processor>.reload_model(new_model_id).
ResReload(new_model_id, out) ==
    /\ image_processor = "ImageProcessor"
    /\ nloads < MaxLoads
    /\ LET r == ReloadModelOp(Self, new_model_id, out)
       IN  /\ SetSelf(r.s)
           /\ raised' = IF r.raised THEN "Exception" ELSE "none"
    /\ acq' = <<>>
    /\ UNCHANGED <<image_processor, kind, pc, image_paths, max_images,
                   images_to_process, idx, successful, processed, failed,
                   results, events, attempted, nraised, thrVars>>
    /\ UNCHANGED <<tileVars, httpVars, asyncVars>>

\* A caller invokes <processor>.clear_cache(): torch.cuda.empty_cache() is
\* called outside any try, and what it raises reaches the caller.
ResClearCache(cc) ==
    /\ image_processor = "ImageProcessor"
    /\ nclears < MaxClears
    /\ SetSelf(ClearCacheOp(Self))
    /\ raised' = IF cc = "ok" THEN "none" ELSE "Exception"
    /\ UNCHANGED <<image_processor, acq, kind, pc, image_paths, max_images,
                   images_to_process, idx, successful, processed, failed,
                   results, events, attempted, nraised, thrVars>>
    /\ UNCHANGED <<tileVars, httpVars, asyncVars>>

\* A caller assigns <processor>.model = value.
ResSetModel(value) ==
    /\ image_processor = "ImageProcessor"
    /\ nsets < MaxSets
    /\ SetSelf(ModelSetter(Self, value))
    /\ raised' = "none"
    /\ acq' = <<>>
    /\ UNCHANGED <<image_processor, kind, pc, image_paths, max_images,
                   images_to_process, idx, successful, processed, failed,
                   results, events, attempted, nraised, thrVars>>
    /\ UNCHANGED <<tileVars, httpVars, asyncVars>>

\* A caller assigns <processor>.tokenizer = value.
ResSetTokenizer(value) ==
    /\ image_processor = "ImageProcessor"
    /\ nsets < MaxSets
    /\ SetSelf(TokenizerSetter(Self, value))
    /\ raised' = "none"
    /\ acq' = <<>>
    /\ UNCHANGED <<image_processor, kind, pc, image_paths, max_images,
                   images_to_process, idx, successful, processed, failed,
                   results, events, attempted, nraised, thrVars>>
    /\ UNCHANGED <<tileVars, httpVars, asyncVars>>

NextRes ==
    \/ \E value \in AssignedValues : ResSetModel(value)
    \/ \E value \in AssignedValues : ResSetTokenizer(value)
    \/ \E out \in LoadOutcomes : ResEnsureInitialized(out)
    \/ \E out \in LoadOutcomes : ResAcquire(out)
    \/ \E out \in LoadOutcomes : ResGetModel(out)
    \/ \E out \in LoadOutcomes : ResGetTokenizer(out)
    \/ \E id \in ModelIds \cup {""}, out \in LoadOutcomes : ResReload(id, out)
    \/ \E cc \in ClearCacheOutcomes : ResClearCache(cc)

SpecRes == InitRes /\ [][NextRes]_vars

\* The fields of the instance hold what its own loads and reloads put there:
\* no caller has assigned one through a property setter.
Unassigned == nsets = 0

\* C9: two acquisitions that return a handle, with no reload (and no
\* assignment through a setter) between them,
\* return the same model handle, and at most one load runs from before the
\* first to after the second.
C9_SameHandleOneLoad ==
    (Unassigned /\ Len(acq) = 2) =>
        /\ acq[1].h = acq[2].h
        /\ acq[1].h # NoHandle
        /\ acq[2].after - acq[1].before <= 1

\* Two acquisitions without reload, the first of which performed the load.
C9_Witness ==
    /\ Len(acq) = 2
    /\ acq[1].after = acq[1].before + 1
    /\ acq[2].h = model
    /\ is_loaded

\* A step in which a load ran and failed.
LoadFailedStep == nloads' = nloads + 1 /\ ~is_loaded'

\* C11: a failed load is not cached. On an instance whose fields no setter
\* has assigned, a step whose load fails leaves the
\* instance unloaded with no model handle and, when there was no global
\* processor, leaves the global unset; an acquisition made while unloaded (or while the global is unset)
\* runs a fresh load, and when that load succeeds the resource is ready with
\* the handles that load produced.
C11_FailedLoadNotCached ==
    [][Unassigned =>
       /\ (nloads' = nloads + 1 /\ raised' # "none") =>
              /\ ~is_loaded'
              /\ model' = NoHandle
              /\ image_processor' = image_processor
       /\ ((\E out \in LoadOutcomes : ResAcquire(out) \/ ResGetModel(out))
              /\ ~is_loaded) =>
              /\ nloads' = nloads + 1
              /\ raised' = "none" =>
                    /\ is_loaded'
                    /\ model' = Handle(model_id, nloads')
                    /\ tokenizer' = Handle(model_id, nloads')
       /\ ((\E out \in LoadOutcomes : ResEnsureInitialized(out))
              /\ image_processor = "None") =>
              /\ nloads' = nloads + 1
              /\ raised' = "none" =>
                    /\ image_processor' = "ImageProcessor"
                    /\ is_loaded'
                    /\ model' = Handle(DefaultModelId, nloads')
      ]_vars

\* The first construction failed and left the global unset, the second call
\* loaded afresh; and an instance whose reload failed is ready again after a
\* later acquisition.
C11_Witness ==
    /\ image_processor = "ImageProcessor"
    /\ ninstances = 2
    /\ is_loaded
    /\ model.n = nloads
    /\ nloads = 4
    /\ Len(acq) = 1
    /\ acq[1].after = acq[1].before + 1

\* C12 as stated: clear_cache drops the model handle and resets a ready
\* instance to unloaded.
C12_Original ==
    [][(nclears' = nclears + 1 /\ is_loaded) =>
           (~is_loaded' /\ model' = NoHandle)]_vars

\* C12: clear_cache leaves the instance as it was: the model and tokenizer
\* handles, the model id and the lifecycle flag are unchanged and no load
\* runs, so a ready instance stays ready and the next acquisition returns the
\* same handle without loading.
C12_ClearCacheKeepsHandle ==
    [][/\ nclears' = nclears + 1 =>
              /\ UNCHANGED <<model, tokenizer, model_id, is_loaded, nloads>>
              /\ UNCHANGED image_processor
       /\ ((\E out \in LoadOutcomes : ResAcquire(out)) /\ is_loaded) =>
              /\ nloads' = nloads
              /\ model' = model
              /\ acq'[Len(acq')].h = model
      ]_vars

\* clear_cache was called on a ready instance between two acquisitions, and
\* both returned the handle of the one load.
C12_Witness ==
    /\ nclears >= 1
    /\ is_loaded
    /\ Len(acq) = 2
    /\ acq[1].h = acq[2].h
    /\ acq[2].h = model
    /\ acq[2].after = acq[1].after

\* ------------------------------------ validation and acquisition failures
\* The inputs _validate_batch_inputs rejects.
InvalidBatchInputs == Len(image_paths) = 0 \/ max_images <= 0

\* C13: process_images_batch rejects an empty list and a cap <= 0 with
\* ValueError, and does so before the resource is acquired (no field of the
\* resource changes, no load runs) and before any item is processed.
C13_BatchValidationFirst ==
    /\ []((kind = "batch" /\ InvalidBatchInputs) =>
             /\ pc \in {"b_validate", "done"}
             /\ attempted = <<>>
             /\ pc = "done" => raised = "ValueError")
    /\ [][(pc = "b_validate" /\ InvalidBatchInputs) =>
             /\ raised' = "ValueError"
             /\ pc' = "done"
             /\ UNCHANGED resVars
             /\ attempted' = <<>>]_vars

\* A batch with a cap <= 0 on a non-empty list was rejected while the resource
\* was unloaded: no load was attempted.
C13_Witness ==
    /\ kind = "batch"
    /\ pc = "done"
    /\ Len(image_paths) >= 1
    /\ max_images <= 0
    /\ raised = "ValueError"
    /\ ~is_loaded
    /\ attempted = <<>>

\* ------------------------------------------------------- float arithmetic
\* The powers of two from 2^0 to 2^26.
PowersOfTwo ==
    <<1, 2, 4, 8, 16, 32, 64, 128, 256, 512, 1024, 2048, 4096, 8192, 16384,
      32768, 65536, 131072, 262144, 524288, 1048576, 2097152, 4194304,
      8388608, 16777216, 33554432, 67108864>>

\* 2^n for n in 0 .. 26.
Pow2(n) == PowersOfTwo[n + 1]

\* The base of a limb.
Limb == Pow2(25)

\* float('inf'): above every finite value held.
FloatInf == <<Limb, 0, 0>>

\* The exact sum of two held values.
FloatAdd(a, b) ==
    LET lo == a[3] + b[3]
        mid == a[2] + b[2] + (lo \div Limb)
    IN  <<a[1] + b[1] + (mid \div Limb), mid % Limb, lo % Limb>>

\* The exact difference a - b of two held values, a >= b.
FloatSub(a, b) ==
    LET lo == a[3] - b[3]
        b1 == IF lo < 0 THEN 1 ELSE 0
        mid == a[2] - b[2] - b1
        b2 == IF mid < 0 THEN 1 ELSE 0
    IN  <<a[1] - b[1] - b2, mid + b2 * Limb, lo + b1 * Limb>>

\* a < b on floats.
FloatLess(a, b) ==
    \/ a[1] < b[1]
    \/ a[1] = b[1] /\ a[2] < b[2]
    \/ a[1] = b[1] /\ a[2] = b[2] /\ a[3] < b[3]

\* The held value whose only set bit is bit pos, that is 2^(pos - 63).
FloatBit(pos) ==
    LET v == Pow2(pos % 25)
        k == pos \div 25
    IN  <<IF k = 2 THEN v ELSE 0, IF k = 1 THEN v ELSE 0,
          IF k = 0 THEN v ELSE 0>>

\* The held value c * 2^(t - 63), for c below 2^13.
FloatShift(c, t) ==
    LET o == t % 25
        k == t \div 25
        low == (c % Pow2(25 - o)) * Pow2(o)
        high == c \div Pow2(25 - o)
    IN  <<IF k = 2 THEN low ELSE IF k = 1 THEN high ELSE 0,
          IF k = 1 THEN low ELSE IF k = 0 THEN high ELSE 0,
          IF k = 0 THEN low ELSE 0>>

\* a / b for integers a >= 0 and b > 0 below 2^11 (Python's true division):
\* the quotient rounded to 53 significant bits, ties to even. e is the
\* exponent of the quotient; the 52 bits after the leading one come from long
\* division, 13 bits at a time.
FloatDiv(a, b) ==
    IF a = 0
    THEN FloatZero
    ELSE LET e == CHOOSE x \in (0 - 11) .. 11 :
                      LET n == a * Pow2(IF x < 0 THEN 0 - x ELSE 0)
                          d == b * Pow2(IF x > 0 THEN x ELSE 0)
                      IN  d <= n /\ n < 2 * d
             num == a * Pow2(IF e < 0 THEN 0 - e ELSE 0)
             den == b * Pow2(IF e > 0 THEN e ELSE 0)
             r0 == num - den
             c1 == (r0 * Pow2(13)) \div den
             r1 == (r0 * Pow2(13)) % den
             c2 == (r1 * Pow2(13)) \div den
             r2 == (r1 * Pow2(13)) % den
             c3 == (r2 * Pow2(13)) \div den
             r3 == (r2 * Pow2(13)) % den
             c4 == (r3 * Pow2(13)) \div den
             r4 == (r3 * Pow2(13)) % den
             s == e + 11
             acc == FloatAdd(FloatAdd(FloatBit(52 + s), FloatShift(c1, 39 + s)),
                             FloatAdd(FloatShift(c2, 26 + s),
                                      FloatAdd(FloatShift(c3, 13 + s),
                                               FloatShift(c4, s))))
             up == 2 * r4 > den \/ (2 * r4 = den /\ c4 % 2 = 1)
         IN  IF up THEN FloatAdd(acc, FloatBit(s)) ELSE acc

\* Number of bits of a limb's value.
BitLength(n) ==
    CHOOSE k \in 0 .. 26 : Pow2(k) > n /\ (k = 0 \/ Pow2(k - 1) <= n)

\* Position of the most significant set bit of a held value other than zero.
TopBit(d) ==
    IF d[1] > 0 THEN 49 + BitLength(d[1])
    ELSE IF d[2] > 0 THEN 24 + BitLength(d[2])
    ELSE BitLength(d[3]) - 1

\* Rounding of an exact result to 53 significant bits, ties to even.
FloatRound(d) ==
    IF d = FloatZero
    THEN d
    ELSE LET c == TopBit(d) - 52
         IN  IF c <= 0
             THEN d
             ELSE LET low == d[3] % Pow2(c)
                      half == Pow2(c - 1)
                      base == <<d[1], d[2], d[3] - low>>
                      up == \/ low > half
                            \/ low = half /\ (d[3] \div Pow2(c)) % 2 = 1
                  IN  IF up THEN FloatAdd(base, FloatBit(c)) ELSE base

\* abs(x - y) on floats: the subtraction rounds, abs is exact.
FloatAbsDiff(x, y) ==
    IF FloatLess(x, y)
    THEN FloatRound(FloatSub(y, x))
    ELSE FloatRound(FloatSub(x, y))

\* ------------------------------------------------- folders: planner, tiler
\* Sizes (width, height) of the images explored: the small ones, and a
\* camera's landscape and portrait frame.
Sizes == ((0 .. MaxDim) \X (0 .. MaxDim)) \cup {<<1280, 960>>, <<960, 1280>>}

\* Tile edges explored: a small one and the default of dynamic_preprocess.
TileEdges == {2, 448}

\* Mutant: the lower limit on the tile count is not applied.
TargetRatiosNoLowerLimit(mn, mx) ==
    {r \in (1 .. mx) \X (1 .. mx) :
        \E n \in mn .. mx :
            /\ r[1] <= n
            /\ r[2] <= n
            /\ r[1] * r[2] <= mx}

\* folders.py 53-55: the set of grids (i, j) with min_num <= i*j <= max_num.
TargetRatios(mn, mx) ==
    {r \in (1 .. mx) \X (1 .. mx) :
        \E n \in mn .. mx :
            /\ r[1] <= n
            /\ r[2] <= n
            /\ r[1] * r[2] <= mx
            /\ r[1] * r[2] >= mn}

\* Mutant: the candidates are visited by descending tile count.
NextRatiosDescending(rem) ==
    {r \in rem : \A q \in rem : r[1] * r[2] >= q[1] * q[2]}

\* folders.py 56: sorted(target_ratios, key=i*j) is stable, and the set's
\* iteration order is not specified: the loop visits the candidates by
\* ascending tile count, those of one tile count in any order.
NextRatios(rem) ==
    {r \in rem : \A q \in rem : r[1] * r[2] <= q[1] * q[2]}

\* The loop's variables before the first iteration (folders.py 34-35).
FindClosestStart == [best_ratio_diff |-> FloatInf, best_ratio |-> <<1, 1>>]

\* ratio_diff of one candidate (folders.py 38-39).
RatioDiff(aspect, ratio) ==
    FloatAbsDiff(aspect, FloatDiv(ratio[1], ratio[2]))

\* Mutant: a larger difference replaces the best one.
FindClosestStepFarthest(st, ratio, aspect, width, height, size) ==
    IF FloatLess(st.best_ratio_diff, RatioDiff(aspect, ratio))
           \/ st.best_ratio_diff = FloatInf
    THEN [best_ratio_diff |-> RatioDiff(aspect, ratio), best_ratio |-> ratio]
    ELSE st

\* Mutant: a tied candidate replaces the best one when its tile area exceeds
\* half of the image's area.
FindClosestStepTileArea(st, ratio, aspect, width, height, size) ==
    LET ratio_diff == RatioDiff(aspect, ratio)
    IN  IF FloatLess(ratio_diff, st.best_ratio_diff)
        THEN [best_ratio_diff |-> ratio_diff, best_ratio |-> ratio]
        ELSE IF /\ ratio_diff = st.best_ratio_diff
                /\ 2 * size * size * ratio[1] * ratio[2] > width * height
        THEN [st EXCEPT !.best_ratio = ratio]
        ELSE st

\* One iteration of the loop of find_closest_aspect_ratio (folders.py 37-45).
\* area > 0.5 * image_size * image_size * i * j is exact in floats and is
\* compared here doubled, in integers.
FindClosestStep(st, ratio, aspect, width, height, size) ==
    LET ratio_diff == RatioDiff(aspect, ratio)
    IN  IF FloatLess(ratio_diff, st.best_ratio_diff)
        THEN [best_ratio_diff |-> ratio_diff, best_ratio |-> ratio]
        ELSE IF /\ ratio_diff = st.best_ratio_diff
                /\ 2 * width * height > size * size * ratio[1] * ratio[2]
        THEN [st EXCEPT !.best_ratio = ratio]
        ELSE st

\* The loop over a list of candidates, from position k on.
RECURSIVE FindClosestFrom(_, _, _, _, _, _, _)
FindClosestFrom(st, k, aspect, target_ratios, width, height, size) ==
    IF k > Len(target_ratios)
    THEN st
    ELSE FindClosestFrom(
             FindClosestStep(st, target_ratios[k], aspect, width, height, size),
             k + 1, aspect, target_ratios, width, height, size)

\* folders.find_closest_aspect_ratio on a list of candidates.
FindClosestAspectRatio(aspect, target_ratios, width, height, size) ==
    FindClosestFrom(FindClosestStart, 1, aspect, target_ratios, width, height,
                    size).best_ratio

\* A fixed order to compare the explored orders with, not the list a build
\* produces: ascending tile count, and ascending i among the grids of one
\* tile count. (Line 56 leaves the order within one tile count to the set's
\* iteration; the planner's actions follow NextRatios.)
RECURSIVE ReferenceOrder(_)
ReferenceOrder(S) ==
    IF S = {}
    THEN <<>>
    ELSE LET first == CHOOSE r \in S : \A q \in S :
                          \/ r[1] * r[2] < q[1] * q[2]
                          \/ r[1] * r[2] = q[1] * q[2] /\ r[1] <= q[1]
         IN  <<first>> \o ReferenceOrder(S \ {first})

\* Mutant: the column and the row of the tile are exchanged.
CropBoxTransposed(i, target_width, size) ==
    LET cols == target_width \div size
    IN  <<(i \div cols) * size, (i % cols) * size,
          ((i \div cols) + 1) * size, ((i % cols) + 1) * size>>

\* The crop box of tile i (folders.py 71-76), target_width being i_cols * size.
CropBox(i, target_width, size) ==
    LET cols == target_width \div size
    IN  <<(i % cols) * size, (i \div cols) * size,
          ((i % cols) + 1) * size, ((i \div cols) + 1) * size>>

\* Mutant: the thumbnail is appended whenever thumbnailing is enabled.
SplitTilesAlwaysThumbnail(ratio, size, thumb) ==
    LET target_width == size * ratio[1]
        blocks == ratio[1] * ratio[2]
        tiles == [i \in 1 .. blocks |->
                     [tile |-> "crop", box |-> CropBox(i - 1, target_width, size)]]
    IN  [images |-> IF thumb
                    THEN Append(tiles, [tile |-> "thumbnail",
                                        box |-> <<0, 0, size, size>>])
                    ELSE tiles,
         raised |-> "none"]

\* dynamic_preprocess from the target size on (folders.py 63-84): the resized
\* image is cropped into `blocks` tiles, the assertion compares their number
\* with `blocks`, and the thumbnail is appended when there are several tiles.
SplitTiles(ratio, size, thumb) ==
    LET target_width == size * ratio[1]
        target_height == size * ratio[2]
        blocks == ratio[1] * ratio[2]
        tiles == [i \in 1 .. blocks |->
                     [tile |-> "crop", box |-> CropBox(i - 1, target_width, size)]]
    IN  IF Len(tiles) # blocks
        THEN [images |-> <<>>, raised |-> "AssertionError"]
        ELSE [images |-> IF thumb /\ Len(tiles) # 1
                         THEN Append(tiles, [tile |-> "thumbnail",
                                             box |-> <<0, 0, size, size>>])
                         ELSE tiles,
              raised |-> "none"]

\* dynamic_preprocess(image, min_num, max_num, image_size, use_thumbnail) is
\* called: the size is read, the aspect ratio computed (which divides by the
\* height) and the candidates are enumerated (folders.py 49-56).
DynamicPreprocess(w, h, mn, mx, size, thumb) ==
    /\ tphase = "idle"
    /\ orig_width' = w
    /\ orig_height' = h
    /\ min_num' = mn
    /\ max_num' = mx
    /\ image_size' = size
    /\ use_thumbnail' = thumb
    /\ IF h = 0
       THEN /\ terror' = "ZeroDivisionError"
            /\ tphase' = "raised"
            /\ UNCHANGED <<aspect_ratio, remaining, best_ratio, best_ratio_diff>>
       ELSE /\ terror' = "none"
            /\ tphase' = "planning"
            /\ aspect_ratio' = FloatDiv(w, h)
            /\ remaining' = TargetRatios(mn, mx)
            /\ best_ratio' = FindClosestStart.best_ratio
            /\ best_ratio_diff' = FindClosestStart.best_ratio_diff
    /\ UNCHANGED <<tied, target_aspect_ratio, processed_images>>
    /\ UNCHANGED <<resVars, reqVars, thrVars, httpVars, asyncVars>>

\* One iteration of find_closest_aspect_ratio's loop, on the next candidate.
FindClosestVisit(ratio) ==
    /\ tphase = "planning"
    /\ ratio \in NextRatios(remaining)
    /\ LET st == FindClosestStep(
                     [best_ratio_diff |-> best_ratio_diff,
                      best_ratio |-> best_ratio],
                     ratio, aspect_ratio, orig_width, orig_height, image_size)
           ratio_diff == RatioDiff(aspect_ratio, ratio)
       IN  /\ best_ratio' = st.best_ratio
           /\ best_ratio_diff' = st.best_ratio_diff
           /\ tied' = IF FloatLess(ratio_diff, best_ratio_diff) THEN <<ratio>>
                      ELSE IF ratio_diff = best_ratio_diff
                      THEN Append(tied, ratio)
                      ELSE tied
    /\ remaining' = remaining \ {ratio}
    /\ UNCHANGED <<tphase, orig_width, orig_height, min_num, max_num,
                   image_size, use_thumbnail, aspect_ratio,
                   target_aspect_ratio, processed_images, terror>>
    /\ UNCHANGED <<resVars, reqVars, thrVars, httpVars, asyncVars>>

\* The loop is over: find_closest_aspect_ratio returns best_ratio.
FindClosestReturn ==
    /\ tphase = "planning"
    /\ remaining = {}
    /\ target_aspect_ratio' = best_ratio
    /\ tphase' = "planned"
    /\ UNCHANGED <<orig_width, orig_height, min_num, max_num, image_size,
                   use_thumbnail, aspect_ratio, remaining, best_ratio,
                   best_ratio_diff, tied, processed_images, terror>>
    /\ UNCHANGED <<resVars, reqVars, thrVars, httpVars, asyncVars>>

\* The rest of dynamic_preprocess: resize, crop, assertion, thumbnail, return.
DynamicPreprocessReturn ==
    /\ tphase = "planned"
    /\ LET t == SplitTiles(target_aspect_ratio, image_size, use_thumbnail)
       IN  /\ processed_images' = t.images
           /\ terror' = t.raised
           /\ tphase' = IF t.raised = "none" THEN "returned" ELSE "raised"
    /\ UNCHANGED <<orig_width, orig_height, min_num, max_num, image_size,
                   use_thumbnail, aspect_ratio, remaining, best_ratio,
                   best_ratio_diff, tied, target_aspect_ratio>>
    /\ UNCHANGED <<resVars, reqVars, thrVars, httpVars, asyncVars>>

NextTile ==
    \/ \E wh \in Sizes, mn \in 0 .. MaxMinTiles, mx \in 0 .. MaxTiles,
          size \in TileEdges, thumb \in BOOLEAN :
          DynamicPreprocess(wh[1], wh[2], mn, mx, size, thumb)
    \/ \E ratio \in remaining : FindClosestVisit(ratio)
    \/ FindClosestReturn
    \/ DynamicPreprocessReturn

SpecTile == InitRes /\ [][NextTile]_vars

\* ------------------------------------------------- properties of the tiling
\* find_closest_aspect_ratio has returned.
Planned == tphase \in {"planned", "returned"}

Abs(x) == IF x < 0 THEN 0 - x ELSE x

\* |w/h - c[1]/c[2]| < |w/h - b[1]/b[2]| in exact arithmetic, for h > 0: both
\* sides multiplied by h * c[2] * b[2].
StrictlyCloser(c, b, w, h) ==
    Abs(w * c[2] - h * c[1]) * b[2] < Abs(w * b[2] - h * b[1]) * c[2]

\* C14: the list dynamic_preprocess returns holds i*j cropped tiles for the
\* chosen grid (i, j), and one thumbnail more exactly when thumbnailing is
\* enabled and i*j > 1; with thumbnailing disabled its length is i*j; the
\* length assertion never fails.
C14_TileCount ==
    /\ terror # "AssertionError"
    /\ tphase = "returned" =>
          LET blocks == target_aspect_ratio[1] * target_aspect_ratio[2]
              crops == {k \in 1 .. Len(processed_images) :
                           processed_images[k].tile = "crop"}
              extra == IF use_thumbnail /\ blocks > 1 THEN 1 ELSE 0
          IN  /\ crops = 1 .. blocks
              /\ Len(processed_images) = blocks + extra
              /\ extra = 1 => processed_images[blocks + 1].tile = "thumbnail"
              /\ ~use_thumbnail => Len(processed_images) = blocks

\* A grid of several tiles with the thumbnail appended.
C14_Witness ==
    /\ tphase = "returned"
    /\ use_thumbnail
    /\ target_aspect_ratio = <<3, 2>>
    /\ Len(processed_images) = 7
    /\ processed_images[7].tile = "thumbnail"

\* C15 as stated: for every W, H > 0 and every (min_num, max_num) the grid
\* chosen is a candidate and no candidate is strictly closer.
C15_Original ==
    (Planned /\ orig_width > 0 /\ orig_height > 0) =>
        /\ target_aspect_ratio \in TargetRatios(min_num, max_num)
        /\ \A c \in TargetRatios(min_num, max_num) :
              ~StrictlyCloser(c, target_aspect_ratio, orig_width, orig_height)

\* C15: for W, H > 0 and a configuration whose candidate set is not empty,
\* the grid chosen is a candidate and no candidate has a strictly smaller
\* |W/H - i/j|; 1280x960 with min 1, max 6 selects (3, 2). When the candidate
\* set is empty (max_num < 1 or min_num > max_num) the grid is (1, 1).
C15_ClosestCandidate ==
    (Planned /\ orig_width > 0 /\ orig_height > 0) =>
        LET cands == TargetRatios(min_num, max_num)
        IN  /\ cands # {} =>
                  /\ target_aspect_ratio \in cands
                  /\ \A c \in cands :
                        ~StrictlyCloser(c, target_aspect_ratio, orig_width,
                                        orig_height)
            /\ cands = {} => target_aspect_ratio = <<1, 1>>
            /\ (orig_width = 1280 /\ orig_height = 960 /\ min_num = 1
                  /\ max_num = 6) => target_aspect_ratio = <<3, 2>>

\* The example of the claim: 1280x960 with min 1, max 6 got the grid (3, 2).
C15_Witness ==
    /\ Planned
    /\ orig_width = 1280
    /\ orig_height = 960
    /\ min_num = 1
    /\ max_num = 6
    /\ target_aspect_ratio = <<3, 2>>
    /\ remaining = {}

\* The tied candidate the rule of the claims selects: the last one met that
\* is preferred, the first one met when none is.
TieChoice(seq, Preferred(_)) ==
    LET S == {k \in 1 .. Len(seq) : Preferred(seq[k])}
    IN  IF S = {}
        THEN seq[1]
        ELSE seq[CHOOSE k \in S : \A m \in S : m <= k]

\* The tile area of the candidate exceeds half of the image's area.
TileAreaExceedsHalfImage(r) ==
    2 * image_size * image_size * r[1] * r[2] > orig_width * orig_height

\* The image's area exceeds half of the tile area of the candidate
\* (folders.py 44).
ImageAreaExceedsHalfTiles(r) ==
    2 * orig_width * orig_height > image_size * image_size * r[1] * r[2]

\* C16 as stated: among the candidates tied at the minimal difference the
\* planner prefers one whose tile area exceeds half of the image area.
C16_Original ==
    (Planned /\ Len(tied) >= 1) =>
        target_aspect_ratio = TieChoice(tied, TileAreaExceedsHalfImage)

\* C16: among the candidates tied at the minimal difference (float equality),
\* the planner prefers a candidate for which the image area W*H exceeds half
\* of the candidate's tile area i*j*image_size^2; when several tied candidates
\* satisfy this the last one met in iteration order is chosen, and when none
\* does the first tied candidate is kept.
C16_TieBreak ==
    (Planned /\ Len(tied) >= 1) =>
        /\ target_aspect_ratio = TieChoice(tied, ImageAreaExceedsHalfTiles)
        /\ \A k \in 1 .. Len(tied) :
              RatioDiff(aspect_ratio, tied[k]) = best_ratio_diff

\* Three grids tied, the image being large enough for the second and too
\* small for the third: the second is chosen.
C16_Witness ==
    /\ Planned
    /\ tied = <<<<1, 1>>, <<2, 2>>>>
    /\ max_num >= 4
    /\ target_aspect_ratio = <<2, 2>>
    /\ ImageAreaExceedsHalfTiles(<<2, 2>>)
    /\ ~TileAreaExceedsHalfImage(<<1, 1>>)

\* The grid find_closest_aspect_ratio gives on the reference order. An explored
\* order that gives another grid shows that the order decides.
ReferenceGrid ==
    FindClosestAspectRatio(aspect_ratio,
                           ReferenceOrder(TargetRatios(min_num, max_num)),
                           orig_width, orig_height, image_size)

\* C17 as stated: for every configuration the grid chosen does not depend on
\* the order in which the candidates of equal tile count are visited.
C17_Original ==
    Planned => target_aspect_ratio = ReferenceGrid

\* C17: one grid is chosen per image. When min_num <= 1, as in every call the
\* program makes, the grid and the target size are determined by (W, H,
\* min_num, max_num, image_size): they do not depend on the order in which
\* the candidates of equal tile count are visited. (For min_num >= 2 two
\* candidates of one tile count can tie at the minimum, as (1, 2) and (2, 1)
\* for 5x4, and the order of the set decides.)
C17_Deterministic ==
    (Planned /\ min_num <= 1) =>
        /\ target_aspect_ratio = ReferenceGrid
        /\ tphase = "returned" =>
              LET blocks == ReferenceGrid[1] * ReferenceGrid[2]
              IN  /\ processed_images[blocks].box[3] =
                         image_size * ReferenceGrid[1]
                  /\ processed_images[blocks].box[4] =
                         image_size * ReferenceGrid[2]

\* All candidates up to six tiles were visited for a 5x4 image, those of
\* equal tile count in whatever order, and the grid is (1, 1).
C17_Witness ==
    /\ tphase = "returned"
    /\ orig_width = 5
    /\ orig_height = 4
    /\ min_num = 1
    /\ max_num = 6
    /\ target_aspect_ratio = <<1, 1>>
    /\ ReferenceGrid = <<1, 1>>

\* C18: whenever W <= 0 or H <= 0 the call fails with an error, no grid is
\* chosen and no tile is produced.
C18_InvalidDimensionsRejected ==
    (tphase # "idle" /\ (orig_width <= 0 \/ orig_height <= 0)) =>
        /\ tphase \in {"planning", "raised"}
        /\ tphase = "planning" => remaining # {}
        /\ target_aspect_ratio = NoRatio
        /\ processed_images = <<>>

\* The positions at which a handler acquires the resource.
AcquirePositions == {"b_acquire", "f_acquire", "fs_acquire", "ss_acquire"}

\* C19: in the folder stream an exception outside the per-item handling (the
\* acquisition of the resource; the listing does not raise) makes the stream
\* yield exactly one error event and end: the error is the last event, and no
\* start, result or complete event follows it.
C19_FolderStreamOuterError ==
    /\ [](kind = "folder_stream" =>
             LET errs == {i \in 1 .. Len(events) : events[i].type = "error"}
             IN  /\ Cardinality(errs) <= 1
                 /\ \A i \in errs : i = Len(events) /\ pc = "done")
    /\ [][(pc = "fs_acquire" /\ LoadFailedStep) =>
             /\ Len(events') = Len(events) + 1
             /\ SubSeq(events', 1, Len(events)) = events
             /\ events'[Len(events')].type = "error"
             /\ events'[Len(events')].text = "RuntimeError"
             /\ pc' = "done"
             /\ attempted' = attempted]_vars

\* The acquisition of a folder stream over three images failed after the
\* metadata event: the stream ended on the error, no item was started.
C19_Witness ==
    /\ kind = "folder_stream"
    /\ pc = "done"
    /\ Len(image_paths) = MaxImages
    /\ max_images >= 1
    /\ ~is_loaded
    /\ Len(events) = 2
    /\ events[2].type = "error"
    /\ events[2].text = "RuntimeError"
    /\ attempted = <<>>

\* C20: a load that fails when a batch, an endpoint or a stream acquires the
\* resource reaches the caller: RuntimeError out of process_images_batch,
\* HTTP 500 from process_folder, an error event carrying the exception in the
\* streams. It is never turned into a per-item result, and a request whose
\* acquisition failed processes no item.
C20_LoadFailurePropagates ==
    /\ [][(pc \in AcquirePositions /\ LoadFailedStep) =>
             /\ pc' = "done"
             /\ attempted' = <<>>
             /\ results' = <<>>
             /\ kind = "batch" => raised' = "RuntimeError"
             /\ kind = "folder" => raised' = "HTTP500"
             /\ kind \in StreamKinds =>
                   /\ Len(events') = Len(events) + 1
                   /\ events'[Len(events')].type = "error"
                   /\ events'[Len(events')].text = "RuntimeError"
                   /\ ResultEventsOf(events') = <<>>]_vars
    /\ []((kind # "none" /\ ~is_loaded) =>
             /\ pc \in AcquirePositions
                       \cup {"b_validate", "f_list", "fs_list", "ss_save", "done"}
             /\ attempted = <<>>
             /\ results = <<>>)

\* A batch over a non-empty list with a valid cap ended with the RuntimeError
\* of the failed load, no image having been processed.
C20_Witness ==
    /\ kind = "batch"
    /\ pc = "done"
    /\ ~InvalidBatchInputs
    /\ raised = "RuntimeError"
    /\ ~is_loaded
    /\ attempted = <<>>
    /\ successful = 0

\* ------------------------------------------ the file and upload endpoints
\* A serve_image request has been answered.
Served == kind = "serve_image" /\ pc = "done"

HasImageExtension(path) ==
    \E ext \in allowed_extensions : EndsWith(Lower(path), ext)

\* C21: serve_image returns the file exactly when the decoded path is
\* absolute, exists, is a regular file and has an allowed image extension;
\* otherwise the first failing check, in the order absolute / exists / file /
\* extension, decides the answer (400, 404 "Image not found", 400 "Path is
\* not a file", 400 "File is not an image"), and no answer is a 500.
C21_ServeImageChecks ==
    Served =>
        LET decoded == Unquote(request.path)
            absolute == IsAbs(decoded)
            exists == request.on_disk # "missing"
            isfile == request.on_disk = "file"
            image == HasImageExtension(decoded)
        IN  /\ response.status_code # 500
            /\ (response.status_code = 200) <=>
                   (absolute /\ exists /\ isfile /\ image)
            /\ response.status_code = 200 => response.file = decoded
            /\ ~absolute =>
                   /\ response.status_code = 400
                   /\ response.detail = "Only absolute paths are allowed"
            /\ (absolute /\ ~exists) =>
                   /\ response.status_code = 404
                   /\ response.detail = "Image not found"
            /\ (absolute /\ exists /\ ~isfile) =>
                   /\ response.status_code = 400
                   /\ response.detail = "Path is not a file"
            /\ (absolute /\ isfile /\ ~image) =>
                   /\ response.status_code = 400
                   /\ response.detail = "File is not an image"

\* A percent-encoded, upper-case path of a regular file is served under its
\* decoded name.
C21_Witness ==
    /\ Served
    /\ request.path = <<"%", "2", "f", "a", ".", "P", "n", "G">>
    /\ request.on_disk = "file"
    /\ response.status_code = 200
    /\ response.file = <<"/", "a", ".", "P", "n", "G">>

\* A preview_folder_images request has been answered.
Previewed == kind = "preview_folder" /\ pc = "done"

\* C22: preview_folder_images answers 404 for a path that does not exist and
\* 400 for a path that is not a directory, in both cases without calling
\* get_list_images; for a directory it returns the folder path and the
\* extension it was given and total_found equal to the length of image_paths.
C22_PreviewFolder ==
    Previewed =>
        /\ request.on_disk = "missing" =>
               /\ response.status_code = 404
               /\ ~listed
        /\ request.on_disk \in {"file", "fifo"} =>
               /\ response.status_code = 400
               /\ response.detail = "Path is not a directory"
               /\ ~listed
        /\ request.on_disk = "dir" =>
               /\ response.status_code = 200
               /\ listed
               /\ response.folder_path = request.path
               /\ response.extension = request.extension
               /\ response.total_found = Len(response.image_paths)
               /\ response.image_paths = image_paths

\* A directory with two matching files has been previewed.
C22_Witness ==
    /\ Previewed
    /\ request.on_disk = "dir"
    /\ response.status_code = 200
    /\ response.total_found = 2
    /\ Len(response.image_paths) = 2

\* A POST /process/image request has been answered.
Uploaded == kind = "single_image" /\ pc = "done"

\* C23: a request to POST /process/image ends in one of three outcomes: 400
\* exactly when the content type is missing or does not start with "image/",
\* and then no inference was run; 500 exactly when saving the upload,
\* acquiring the model or the inference call raised; otherwise 200 with the
\* uploaded filename, status "success" and the text inference returned.
C23_SingleImageOutcomes ==
    Uploaded =>
        LET ct == request.content_type
            image == /\ ct # NoString
                     /\ Len(ct) >= 6
                     /\ ct[1] = "i" /\ ct[2] = "m" /\ ct[3] = "a"
                     /\ ct[4] = "g" /\ ct[5] = "e" /\ ct[6] = "/"
        IN  /\ response.status_code \in {200, 400, 500}
            /\ (response.status_code = 400) <=> ~image
            /\ response.status_code = 400 => attempted = <<>>
            /\ (response.status_code = 500) <=> (image /\ raised # "none")
            /\ response.status_code = 200 =>
                   /\ response.filename = request.filename
                   /\ response.status = "success"
                   /\ Len(attempted) = 1
                   /\ response.description =
                          InferenceOnImages(attempted[1][2]).response

\* An image upload has been described.
C23_Witness ==
    /\ Uploaded
    /\ request.content_type = <<"i", "m", "a", "g", "e", "/", "p", "n", "g">>
    /\ request.filename = "test.jpg"
    /\ response.status_code = 200
    /\ response.filename = "test.jpg"
    /\ response.description = "description"

\* ------------------------------------------------ the folder stream's start
\* The generator of a folder stream has run past its listing.
FolderStreamListed == Streaming("folder_stream") /\ pc # "fs_list"

MetadataEvents(evs) == SelectSeq(evs, LAMBDA e : e.type = "metadata")

\* The first event is metadata with all counts zero, and there is one.
MetadataFirstOnce ==
    /\ Len(events) >= 1
    /\ events[1].type = "metadata"
    /\ events[1].processed = 0
    /\ events[1].successful = 0
    /\ events[1].failed = 0
    /\ Len(MetadataEvents(events)) = 1

\* C24 as stated: in every folder stream, the one of a folder without
\* matching images included, the first event is metadata with processed,
\* successful and failed all zero, and metadata is emitted exactly once.
C24_Original ==
    FolderStreamListed => MetadataFirstOnce

\* C24: a folder stream whose listing holds at least one image starts with
\* the metadata event, all counts zero, and emits it exactly once; the stream
\* of a folder without matching images is a single complete event with
\* total_found 0, and holds no metadata event.
C24_MetadataFirst ==
    FolderStreamListed =>
        IF Len(image_paths) > 0
        THEN /\ MetadataFirstOnce
             /\ events[1].total_found = Len(image_paths)
        ELSE /\ Len(events) = 1
             /\ events[1].type = "complete"
             /\ events[1].total_found = 0
             /\ Len(MetadataEvents(events)) = 0

\* A folder stream over two images has ended: one metadata event, the first.
C24_Witness ==
    /\ kind = "folder_stream"
    /\ pc = "done"
    /\ Len(image_paths) = 2
    /\ Len(events) > 2
    /\ MetadataFirstOnce

\* ------------------------------------------------- the batch-level failure
\* The loop of process_images_batch has ended and its summary is made.
BatchTallied == kind = "batch" /\ pc = "done" /\ failed # NoInt

\* C25: process_images_batch raises the batch-level failure if and only if
\* none of the attempted items succeeded; it raises it after every attempted
\* item has been processed and tallied; with at least one success it returns
\* normally, whatever the other items did.
C25_BatchFailureIffNoSuccess ==
    BatchTallied =>
        /\ (nraised = 1) <=>
               \A k \in 1 .. Len(attempted) : FailedOutcome(attempted[k])
        /\ nraised \in {0, 1}
        /\ nraised = 1 =>
               /\ raised = "RuntimeError"
               /\ Len(attempted) = Min(max_images, Len(image_paths))
               /\ successful + failed = Len(attempted)
        /\ (\E k \in 1 .. Len(attempted) : ~FailedOutcome(attempted[k])) =>
               raised = "none"

\* ------------------------------------------------- out-of-memory recovery
\* This step is the inference call of process_images_batch on its next item,
\* and the call met accelerator out-of-memory.
BatchItemOutOfMemory ==
    /\ kind = "batch"
    /\ pc = "b_loop"
    /\ Len(attempted') = Len(attempted) + 1
    /\ attempted'[Len(attempted')][2] = "OutOfMemoryError"

\* C26: when inference on an item of process_images_batch raises accelerator
\* out-of-memory, clear_cache is called before the item's outcome is
\* returned, the item is not counted as a success, and the loop goes on.
C26_OutOfMemoryClearsCache ==
    [][BatchItemOutOfMemory =>
           /\ nclears' = nclears + 1
           /\ successful' = successful
           /\ idx' = idx + 1
           /\ pc' = "b_loop"]_vars

\* C27: when an item of process_images_batch meets out-of-memory and the
\* clear_cache attempted for it fails as well, the item is a plain per-item
\* failure (not a success, no exception leaves the batch) and the loop goes
\* on to the remaining items.
C27_ClearCacheFailureNotMasking ==
    [][\A out \in LoadOutcomes, err \in LoadErrors :
           BatchItem("OutOfMemoryError", out, err, "fails") =>
               /\ successful' = successful
               /\ raised' = "none"
               /\ pc' = "b_loop"
               /\ idx' = idx + 1]_vars

\* ------------------------------------------------------------------ reload
\* C28: reload_model leaves the ready state and drops the model handle it
\* held before the load begins, and installs a given identifier before the
\* load: a load always runs (the loaded guard does not return early); the
\* handle held afterwards is never the previous one, it is the handle of
\* this load under the installed identifier, or none when the load failed;
\* and the tokenizer this load fetched is fetched under that identifier too.
C28_ReloadDropsThenLoads ==
    [][\A id \in ModelIds \cup {""}, out \in LoadOutcomes :
           ResReload(id, out) =>
               LET new_id == IF id = "" THEN model_id ELSE id
               IN  /\ model_id' = new_id
                   /\ nloads' = nloads + 1
                   /\ model # NoHandle => model' # model
                   /\ IF out = "ok"
                      THEN /\ is_loaded'
                           /\ model' = Handle(new_id, nloads')
                      ELSE /\ ~is_loaded'
                           /\ model' = NoHandle
                   /\ out # "tokenizer_fails" =>
                          tokenizer' = Handle(new_id, nloads')]_vars

\* The processor, loaded under the default identifier first, has been
\* reloaded under another identifier and holds that model.
C28_Witness ==
    /\ image_processor = "ImageProcessor"
    /\ model_id # DefaultModelId
    /\ is_loaded
    /\ model = Handle(model_id, nloads)
    /\ nloads >= 2

\* ------------------------------------- concurrent clients on the event loop
\* The handlers are coroutines (`async def`) that never await inside their
\* bodies: a folder stream's generator runs on the event loop from one yield
\* to the next, and at a yield the loop may resume the generator of another
\* client. inference_on_images is an ordinary blocking call: while it runs,
\* the loop runs nothing else. process_images_batch is an ordinary method; a
\* caller runs it in a thread of its own.
AsyncOutcomes == {"ok", "ValueError"}

AsyncCaps == {0, 1, MaxAsyncImages}

SetTask(c, t) == tasks' = [tasks EXCEPT ![c] = t]

LoopFree == running = 0

\* Mutant: the call is started and not waited for.
InferenceReturnsDetached(t) == t

\* The inference call of the task begins / returns.
InferenceBegins(t) == [t EXCEPT !.calls = @ + 1]

InferenceReturns(t) == [t EXCEPT !.calls = @ - 1]

\* A client opens GET /process/folder/stream (the handler checks the path
\* and returns the StreamingResponse, or raises 404 / 400), or a caller
\* enters process_images_batch.
TaskStart(c, k, n, cap, on_disk) ==
    /\ tasks[c].pc = "idle"
    /\ image_processor = "ImageProcessor"
    /\ k = "folder_stream" => LoopFree
    /\ SetTask(c, [TaskIdle EXCEPT
            !.kind = k,
            !.raised = EntryError(k, on_disk, NoString),
            !.pc = IF EntryError(k, on_disk, NoString) # "none" THEN "done"
                   ELSE IF k = "batch" THEN "b_validate"
                   ELSE "fs_list",
            !.image_paths = Paths(n),
            !.max_images = cap])
    /\ UNCHANGED <<resVars, reqVars, thrVars, tileVars, httpVars, running>>

\* The generator up to its first yield (api.py 376-398).
TaskFsList(c) ==
    /\ tasks[c].pc = "fs_list"
    /\ LoopFree
    /\ LET t == tasks[c]
       IN  IF Len(t.image_paths) = 0
           THEN SetTask(c, [t EXCEPT !.events = Append(@, EmptyCompleteEvent),
                                     !.pc = "done"])
           ELSE SetTask(c, [t EXCEPT
                   !.events = Append(@, MetadataEvent(Len(t.image_paths))),
                   !.pc = "fs_acquire"])
    /\ UNCHANGED <<resVars, reqVars, thrVars, tileVars, httpVars, running>>

\* From the metadata yield to the next yield (api.py 400-415, 439-450): the
\* acquisition and the slice, then the start event of the first item, the
\* complete event of an empty slice, or the error event.
TaskFsAcquire(c, out) ==
    /\ tasks[c].pc = "fs_acquire"
    /\ LoopFree
    /\ LET t == tasks[c]
           e == EnsureModelsLoaded(Self, out)
           items == PySliceTo(t.image_paths, t.max_images)
       IN  /\ SetSelf(e.s)
           /\ IF e.raised # "none"
              THEN SetTask(c, [t EXCEPT !.events = Append(@, ErrorEvent(e.raised)),
                                        !.pc = "done"])
              ELSE IF Len(items) = 0
              THEN SetTask(c, [t EXCEPT !.images_to_process = items,
                                        !.processed = 0,
                                        !.events = Append(@, CompleteEvent(0, 0)),
                                        !.pc = "done"])
              ELSE SetTask(c, [t EXCEPT
                      !.images_to_process = items,
                      !.events = Append(@, StartEvent(items[1], 1, Len(items))),
                      !.pc = "fs_item"])
    /\ UNCHANGED <<image_processor, acq, reqVars, thrVars, tileVars, httpVars,
                   running>>

\* The generator is resumed after the start event and enters
\* inference_on_images (api.py 418): the call holds the event loop.
TaskFsInferBegin(c) ==
    /\ tasks[c].pc = "fs_item"
    /\ LoopFree
    /\ SetTask(c, [InferenceBegins(tasks[c]) EXCEPT !.pc = "fs_infer"])
    /\ running' = c
    /\ UNCHANGED <<resVars, reqVars, thrVars, tileVars, httpVars>>

\* The call returns and the result event is yielded (api.py 418-436).
TaskFsInferEnd(c, o, out) ==
    /\ tasks[c].pc = "fs_infer"
    /\ running = c
    /\ LET t == InferenceReturns(tasks[c])
           path == t.images_to_process[t.idx + 1]
           r == CallInference(Self, o, out)
       IN  /\ SetSelf(r.s)
           /\ SetTask(c, [t EXCEPT !.events = @ \o ResultEvents(path, r),
                                   !.pc = "fs_next"])
    /\ running' = 0
    /\ UNCHANGED <<image_processor, acq, reqVars, thrVars, tileVars, httpVars>>

\* From the result yield to the next yield (api.py 428, 407-415, 439-444):
\* the count of the success, then the start event of the next item or the
\* complete event.
TaskFsNext(c) ==
    /\ tasks[c].pc = "fs_next"
    /\ LoopFree
    /\ LET t == tasks[c]
           succ == IF t.events[Len(t.events)].status = "success"
                   THEN t.successful + 1
                   ELSE t.successful
           total == Len(t.images_to_process)
       IN  IF t.idx + 1 < total
           THEN SetTask(c, [t EXCEPT
                   !.successful = succ,
                   !.idx = @ + 1,
                   !.events = Append(@, StartEvent(t.images_to_process[t.idx + 2],
                                                   t.idx + 2, total)),
                   !.pc = "fs_item"])
           ELSE SetTask(c, [t EXCEPT
                   !.successful = succ,
                   !.idx = @ + 1,
                   !.processed = total,
                   !.events = Append(@, CompleteEvent(total, succ)),
                   !.pc = "done"])
    /\ UNCHANGED <<resVars, reqVars, thrVars, tileVars, httpVars, running>>

\* process_images_batch up to its loop (image_processor.py 214-223).
TaskBatchBegin(c, out) ==
    /\ tasks[c].pc = "b_validate"
    /\ LET t == tasks[c]
           v == ValidateBatchInputs(t.image_paths, t.max_images)
           e == EnsureModelsLoaded(Self, out)
       IN  IF v # "none"
           THEN /\ SetTask(c, [t EXCEPT !.raised = v, !.pc = "done"])
                /\ UNCHANGED <<model_id, model, tokenizer, is_loaded, nloads,
                               nclears, nsets>>
           ELSE /\ SetSelf(e.s)
                /\ IF e.raised # "none"
                   THEN SetTask(c, [t EXCEPT !.raised = e.raised, !.pc = "done"])
                   ELSE SetTask(c, [t EXCEPT
                           !.processed = TotalToProcess(t.max_images,
                                                        t.image_paths),
                           !.pc = "b_loop"])
    /\ UNCHANGED <<image_processor, acq, reqVars, thrVars, tileVars, httpVars,
                   running>>

\* The loop calls _process_single_image, which enters inference_on_images.
TaskBatchInferBegin(c) ==
    /\ tasks[c].pc = "b_loop"
    /\ tasks[c].idx < tasks[c].processed
    /\ SetTask(c, [InferenceBegins(tasks[c]) EXCEPT !.pc = "b_infer"])
    /\ UNCHANGED <<resVars, reqVars, thrVars, tileVars, httpVars, running>>

\* _process_single_image returns and the loop counts the item.
TaskBatchInferEnd(c, o, out, err, cc) ==
    /\ tasks[c].pc = "b_infer"
    /\ LET t == InferenceReturns(tasks[c])
           r == ProcessSingleImage(Self, o, out, err, cc)
       IN  /\ SetSelf(r.s)
           /\ SetTask(c, [t EXCEPT
                   !.successful = IF r.ok THEN @ + 1 ELSE @,
                   !.idx = @ + 1,
                   !.raised = r.raised,
                   !.pc = IF r.raised = "none" THEN "b_loop" ELSE "done"])
    /\ UNCHANGED <<image_processor, acq, reqVars, thrVars, tileVars, httpVars,
                   running>>

\* After the loop (image_processor.py 228-233).
TaskBatchSummary(c) ==
    /\ tasks[c].pc = "b_loop"
    /\ tasks[c].idx >= tasks[c].processed
    /\ SetTask(c, [tasks[c] EXCEPT
            !.raised = IF tasks[c].successful = 0 THEN "RuntimeError"
                       ELSE "none",
            !.pc = "done"])
    /\ UNCHANGED <<resVars, reqVars, thrVars, tileVars, httpVars, running>>

\* The generator is exhausted or the batch call has returned.
TaskEnd(c) ==
    /\ tasks[c].pc = "done"
    /\ tasks[c].kind = "folder_stream" => LoopFree
    /\ SetTask(c, TaskIdle)
    /\ UNCHANGED <<resVars, reqVars, thrVars, tileVars, httpVars, running>>

NextAsync ==
    \/ \E c \in Clients, n \in 0 .. MaxAsyncImages, cap \in AsyncCaps :
          TaskStart(c, "batch", n, cap, "dir")
    \/ \E c \in Clients, n \in 0 .. MaxAsyncImages, cap \in AsyncCaps,
          on_disk \in FileKinds :
          (on_disk # "dir" => n = 0) /\ TaskStart(c, "folder_stream", n, cap, on_disk)
    \/ \E c \in Clients : TaskFsList(c)
    \/ \E c \in Clients, out \in LoadOutcomes : TaskFsAcquire(c, out)
    \/ \E c \in Clients : TaskFsInferBegin(c)
    \/ \E c \in Clients, o \in AsyncOutcomes, out \in LoadOutcomes :
          TaskFsInferEnd(c, o, out)
    \/ \E c \in Clients : TaskFsNext(c)
    \/ \E c \in Clients, out \in LoadOutcomes : TaskBatchBegin(c, out)
    \/ \E c \in Clients : TaskBatchInferBegin(c)
    \/ \E c \in Clients, o \in AsyncOutcomes, out \in LoadOutcomes,
          err \in LoadErrors, cc \in ClearCacheOutcomes :
          TaskBatchInferEnd(c, o, out, err, cc)
    \/ \E c \in Clients : TaskBatchSummary(c)
    \/ \E c \in Clients : TaskEnd(c)

SpecAsync == Init /\ [][NextAsync]_vars

\* The start and result events of a stream, in emission order.
ItemEvents(evs) == SelectSeq(evs, LAMBDA e : e.type \in {"start", "result"})

\* C29: within one folder stream or batch, items are processed one at a
\* time, whatever the other clients do: the start and result events of a
\* stream alternate, the k-th pair being the start of item k followed by the
\* result of item k, and at most one inference call of the stream or batch
\* is in progress; a call in progress is that of the last item started.
C29_OneItemAtATime ==
    \A c \in Clients :
        LET t == tasks[c]
            ev == ItemEvents(t.events)
        IN  /\ t.calls \in {0, 1}
            /\ t.kind = "folder_stream" =>
                   /\ \A i \in 1 .. Len(ev) :
                          IF i % 2 = 1
                          THEN /\ ev[i].type = "start"
                               /\ ev[i].index = (i + 1) \div 2
                               /\ ev[i].image_path = t.image_paths[(i + 1) \div 2]
                          ELSE /\ ev[i].type = "result"
                               /\ ev[i].image_path = ev[i - 1].image_path
                   /\ t.calls = 1 => Len(ev) % 2 = 1
            /\ t.kind = "batch" =>
                   (t.calls = 1 <=> t.pc = "b_infer")

\* Two folder streams are open: the first has emitted the result of its item
\* 1 and the start of its item 2, the second has an inference call running.
C29_Witness ==
    /\ tasks[1].kind = "folder_stream"
    /\ tasks[2].kind = "folder_stream"
    /\ Len(ItemEvents(tasks[1].events)) = 3
    /\ tasks[1].calls = 0
    /\ tasks[2].calls = 1
    /\ running = 2

\* ------------------------------------------------------ geometry of the tiles
\* Two boxes (left, upper, right, lower) share no pixel.
Disjoint(a, b) ==
    a[3] <= b[1] \/ b[3] <= a[1] \/ a[4] <= b[2] \/ b[4] <= a[2]

BoxArea(b) == (b[3] - b[1]) * (b[4] - b[2])

\* The area of the first n boxes of a list of tiles.
RECURSIVE AreaOfTiles(_, _)
AreaOfTiles(images, n) ==
    IF n = 0 THEN 0 ELSE BoxArea(images[n].box) + AreaOfTiles(images, n - 1)

\* C30: tile k (from 0) of dynamic_preprocess is the square of edge
\* image_size at column k mod cols and row k div cols of the resized image,
\* cols being target_width / image_size: the i*j tiles are in row-major
\* order, lie inside the target rectangle, are pairwise disjoint and, their
\* areas adding up to the rectangle's, cover it exactly once.
C30_RowMajorGrid ==
    tphase = "returned" =>
        LET cols == target_aspect_ratio[1]
            rows == target_aspect_ratio[2]
            target_width == image_size * cols
            target_height == image_size * rows
            box(k) == processed_images[k + 1].box
        IN  /\ Len(processed_images) >= cols * rows
            /\ \A k \in 0 .. cols * rows - 1 :
                   /\ processed_images[k + 1].tile = "crop"
                   /\ box(k)[1] = (k % cols) * image_size
                   /\ box(k)[2] = (k \div cols) * image_size
                   /\ box(k)[3] = box(k)[1] + image_size
                   /\ box(k)[4] = box(k)[2] + image_size
                   /\ box(k)[1] >= 0 /\ box(k)[3] <= target_width
                   /\ box(k)[2] >= 0 /\ box(k)[4] <= target_height
            /\ \A k, l \in 0 .. cols * rows - 1 :
                   k # l => Disjoint(box(k), box(l))
            /\ AreaOfTiles(processed_images, cols * rows) =
                   target_width * target_height

\* A grid of three columns and two rows: tile 3 opens the second row.
C30_Witness ==
    /\ tphase = "returned"
    /\ target_aspect_ratio = <<3, 2>>
    /\ Len(processed_images) >= 6
    /\ processed_images[4].box = <<0, image_size, image_size, 2 * image_size>>
    /\ processed_images[3].box =
           <<2 * image_size, 0, 3 * image_size, image_size>>

\* ------------------------------------------------------- the candidate set
\* C31: the candidate set dynamic_preprocess builds is exactly the set of
\* grids (i, j), i >= 1, j >= 1, with min_num <= i*j <= max_num, and the
\* loop of find_closest_aspect_ratio visits each candidate once, in
\* non-decreasing order of the tile count i*j.
C31_CandidateSet ==
    [][/\ (tphase = "idle" /\ tphase' = "planning") =>
              remaining' =
                  {r \in (1 .. max_num') \X (1 .. max_num') :
                      min_num' <= r[1] * r[2] /\ r[1] * r[2] <= max_num'}
       /\ (tphase = "planning" /\ remaining' # remaining) =>
              \E r \in remaining :
                  /\ remaining' = remaining \ {r}
                  /\ \A q \in remaining' : r[1] * r[2] <= q[1] * q[2]]_vars

\* The candidates of tile counts 2 to 6 while the tile counts 2 and 3 have
\* been visited and those from 4 on are still to come.
C31_Witness ==
    /\ tphase = "planning"
    /\ min_num = 2
    /\ max_num = 6
    /\ remaining = {<<1, 4>>, <<2, 2>>, <<4, 1>>, <<1, 5>>, <<5, 1>>,
                    <<1, 6>>, <<2, 3>>, <<3, 2>>, <<6, 1>>}

\* ----------------------------------------------------------- failed reload
\* C32: on an instance whose fields no setter has assigned, a
\* reload_model(new_id) whose load fails, at the tokenizer or at the
\* model, raises and leaves the instance unloaded, without a model handle and
\* with model_id = new_id; and an acquisition made while the instance is
\* unloaded runs a load under the identifier the instance holds then, never
\* under another: the handles it fetches carry that identifier.
C32_FailedReloadKeepsNewId ==
    [][Unassigned =>
       /\ \A id \in ModelIds, out \in LoadOutcomes \ {"ok"} :
              ResReload(id, out) =>
                  /\ raised' # "none"
                  /\ ~is_loaded'
                  /\ model' = NoHandle
                  /\ model_id' = id
       /\ \A out \in LoadOutcomes :
              ((ResAcquire(out) \/ ResGetModel(out) \/ ResGetTokenizer(out))
                  /\ ~is_loaded) =>
                  /\ nloads' = nloads + 1
                  /\ model_id' = model_id
                  /\ out # "tokenizer_fails" =>
                         tokenizer' = Handle(model_id, nloads')
                  /\ IF out = "ok"
                     THEN is_loaded' /\ model' = Handle(model_id, nloads')
                     ELSE ~is_loaded' /\ model' = NoHandle]_vars

\* The processor was constructed, its reload under another identifier failed
\* (the second load), and the acquisition that followed ran the third load
\* and holds the model of the new identifier.
C32_Witness ==
    /\ image_processor = "ImageProcessor"
    /\ model_id # DefaultModelId
    /\ is_loaded
    /\ nloads = 3
    /\ model = Handle(model_id, 3)
    /\ Len(acq) = 1
    /\ acq[1].before = 2
    /\ acq[1].after = 3

\* ------------------------------------------------- what is_loaded stands for
\* C33: whatever loads (succeeding, or failing at the tokenizer or at the
\* model), reloads and cache clearings have run, and no assignment through
\* a setter, is_loaded is true only if
\* the model handle and the tokenizer handle are both set and both were
\* fetched under the identifier the instance holds now.
C33_LoadedMeansBothHandles ==
    (Unassigned /\ is_loaded) =>
        /\ model # NoHandle
        /\ tokenizer # NoHandle
        /\ model.id = model_id
        /\ tokenizer.id = model_id

\* The instance is ready under another identifier than the one it was
\* constructed with; a cache clearing has run, and the third load failed:
\* the fourth load was run by an acquisition, so the one before it failed.
C33_Witness ==
    /\ image_processor = "ImageProcessor"
    /\ is_loaded
    /\ model_id # DefaultModelId
    /\ nclears >= 1
    /\ nloads = 4
    /\ tokenizer = Handle(model_id, 4)
    /\ Len(acq) = 1
    /\ acq[1].before = 3
    /\ acq[1].after = 4

\* ------------------------------- the two folder endpoints on the same folder
\* A client reads the folder stream to its end and then posts the same
\* folder, extension and max_images to /process/folder. The listing is the
\* same, and an image gives the same inference outcome in both requests.
\* events and attempted keep what the stream emitted and met.
SameFolderAgain ==
    /\ kind = "folder_stream"
    /\ pc = "done"
    /\ kind' = "folder"
    /\ pc' = "f_list"
    /\ images_to_process' = <<>>
    /\ idx' = 0
    /\ successful' = 0
    /\ processed' = NoInt
    /\ failed' = NoInt
    /\ results' = <<>>
    /\ raised' = "none"
    /\ UNCHANGED <<image_paths, max_images, events, attempted, nraised>>
    /\ UNCHANGED <<resVars, thrVars, tileVars, httpVars, asyncVars>>

\* The outcome o is the one the image gave when the stream processed it.
SameOutcome(path, o) ==
    \A i \in 1 .. Len(attempted) :
        attempted[i][1] = path => attempted[i][2] = o

NextPair ==
    \/ \E n \in 0 .. MaxImages, cap \in Caps :
          StartRequest("folder_stream", n, cap, "dir", NoString)
    \/ \E id \in ModelIds \cup {""}, out \in LoadOutcomes : ReloadModel(id, out)
    \/ FsList
    \/ \E out \in LoadOutcomes : FsAcquire(out)
    \/ FsStart
    \/ \E o \in Outcomes, out \in LoadOutcomes : FsResult(o, out)
    \/ FsComplete
    \/ SameFolderAgain
    \/ FolderList
    \/ \E out \in LoadOutcomes : FolderAcquire(out)
    \/ \E o \in Outcomes, out \in LoadOutcomes :
          FolderItem(o, out) /\ SameOutcome(images_to_process[idx + 1], o)
    \/ FolderReturn
    \/ EndRequest

SpecPair == Init /\ [][NextPair]_vars

\* Both requests ran to their summary: the stream ended with its complete
\* event and process_folder returned its response.
BothSummaries ==
    /\ kind = "folder"
    /\ pc = "done"
    /\ raised = "none"
    /\ Len(image_paths) >= 1
    /\ Len(events) >= 1
    /\ events[Len(events)].type = "complete"

\* C34: for the same non-empty listing, the same max_images and the same
\* outcome of each image, the result events of the folder stream are, in
\* order, the entries of process_folder's results list (same image path,
\* status and text), and the complete event's processed, successful and
\* failed are the values of process_folder's response.
C34_StreamAgreesWithFolder ==
    BothSummaries =>
        LET rs == ResultEventsOf(events)
            summary == events[Len(events)]
        IN  /\ Len(rs) = Len(results)
            /\ \A i \in 1 .. Len(rs) :
                   /\ rs[i].image_path = results[i].image_path
                   /\ rs[i].status = results[i].status
                   /\ rs[i].text = results[i].text
            /\ summary.processed = processed
            /\ summary.successful = successful
            /\ summary.failed = failed

\* A folder of three images with max_images 2, the second image unreadable:
\* both requests have reported two items.
C34_Witness ==
    /\ BothSummaries
    /\ Len(image_paths) = 3
    /\ max_images = 2
    /\ Len(results) = 2
    /\ results[1].text = "description"
    /\ results[2].text = ErrorText("ValueError")
    /\ events[Len(events)].processed = 2

\* ------------------------------------------ concurrent acquisition, threads
\* Neither ensure_image_processor_initialized nor _load_model_and_processor
\* takes a lock: a thread may be preempted between the test of the global (or
\* of _is_loaded) and each from_pretrained call, which releases the GIL while
\* it reads the weights.
Failed == [id |-> "failed", n |-> 0]

\* The instance thread t's method call runs on: the one the global names, or
\* the one the global named when the thread read it and names no longer.
Bound(t) == IF tbound[t] = "orphan" THEN tself[t] ELSE Self

\* A thread enters a handler: ensure_image_processor_initialized() and then
\* image_processor._ensure_models_loaded().
ThreadBegin(t) ==
    /\ tpc[t] = "idle"
    /\ tpc' = [tpc EXCEPT ![t] = "init_check"]
    /\ UNCHANGED <<resVars, reqVars, tseen, tself, tbound, inflight, ninstances>>
    /\ UNCHANGED <<tileVars, httpVars, asyncVars>>

\* `if image_processor is None:` and, when it is, the allocation of a new
\* ImageProcessor whose __post_init__ enters _load_model_and_processor.
ThreadInitCheck(t) ==
    /\ tpc[t] = "init_check"
    /\ IF image_processor = "None"
       THEN /\ tpc' = [tpc EXCEPT ![t] = "construct_tokenizer"]
            /\ tself' = [tself EXCEPT ![t] = NewSelf(DefaultModelId, nloads + 1)]
            /\ inflight' = [inflight EXCEPT ![t] = nloads + 1]
            /\ nloads' = nloads + 1
            /\ ninstances' = ninstances + 1
            /\ nclears' = nclears
            /\ nsets' = nsets
       ELSE /\ tpc' = [tpc EXCEPT ![t] = "read_global"]
            /\ UNCHANGED <<tself, inflight, nloads, ninstances, nclears, nsets>>
    /\ UNCHANGED <<image_processor, model_id, model, tokenizer, is_loaded, acq,
                   reqVars, tseen, tbound>>
    /\ UNCHANGED <<tileVars, httpVars, asyncVars>>

\* AutoTokenizer.from_pretrained of the instance under construction.
ThreadConstructTokenizer(t, ok) ==
    /\ tpc[t] = "construct_tokenizer"
    /\ IF ok
       THEN /\ tself' = [tself EXCEPT ![t].tokenizer =
                            Handle(tself[t].model_id, inflight[t])]
            /\ tpc' = [tpc EXCEPT ![t] = "construct_model"]
            /\ UNCHANGED <<tseen, inflight>>
       ELSE /\ tpc' = [tpc EXCEPT ![t] = "done"]
            /\ tseen' = [tseen EXCEPT ![t] = Failed]
            /\ inflight' = [inflight EXCEPT ![t] = 0]
            /\ tself' = tself
    /\ UNCHANGED <<resVars, reqVars, tbound, ninstances>>
    /\ UNCHANGED <<tileVars, httpVars, asyncVars>>

\* AutoModel.from_pretrained of the instance under construction, then
\* _is_loaded = True and `image_processor = ImageProcessor()`: the global
\* names the new instance. A thread that is inside the instance the global
\* named until now stays inside that one, with the fields it has.
ThreadConstructModel(t, ok) ==
    /\ tpc[t] = "construct_model"
    /\ IF ok
       THEN /\ image_processor' = "ImageProcessor"
            /\ model_id' = tself[t].model_id
            /\ tokenizer' = tself[t].tokenizer
            /\ model' = Handle(tself[t].model_id, inflight[t])
            /\ is_loaded' = TRUE
            /\ tpc' = [tpc EXCEPT ![t] = "read_global"]
            /\ tseen' = tseen
            /\ tself' = [u \in Threads |->
                            IF tbound[u] = "global" /\ tpc[u] # "done"
                            THEN Self ELSE tself[u]]
            /\ tbound' = [u \in Threads |->
                            IF tbound[u] = "global" /\ tpc[u] # "done"
                            THEN "orphan" ELSE tbound[u]]
       ELSE /\ tpc' = [tpc EXCEPT ![t] = "done"]
            /\ tseen' = [tseen EXCEPT ![t] = Failed]
            /\ UNCHANGED <<image_processor, model_id, tokenizer, model,
                           is_loaded, tself, tbound>>
    /\ inflight' = [inflight EXCEPT ![t] = 0]
    /\ UNCHANGED <<nloads, acq, reqVars, ninstances, nclears, nsets>>
    /\ UNCHANGED <<tileVars, httpVars, asyncVars>>

\* The handler's `image_processor._ensure_models_loaded()`: the global is
\* read now, and the call runs on the instance it names at this moment.
ThreadReadGlobal(t) ==
    /\ tpc[t] = "read_global"
    /\ tbound' = [tbound EXCEPT ![t] = "global"]
    /\ tpc' = [tpc EXCEPT ![t] = "acquire_check"]
    /\ UNCHANGED <<resVars, reqVars, tseen, tself, inflight, ninstances>>
    /\ UNCHANGED <<tileVars, httpVars, asyncVars>>

\* The model property, line 29: `if not self._is_loaded:`. The flag is read
\* here and again on entry to _load_model_and_processor; another thread may
\* run between the two reads.
ThreadAcquireCheck(t) ==
    /\ tpc[t] = "acquire_check"
    /\ tpc' = [tpc EXCEPT ![t] = IF Bound(t).is_loaded THEN "return_model"
                                 ELSE "load_guard"]
    /\ UNCHANGED <<resVars, reqVars, tseen, tself, tbound, inflight, ninstances>>
    /\ UNCHANGED <<tileVars, httpVars, asyncVars>>

\* _load_model_and_processor, lines 72-73: `if self._is_loaded: return`, and
\* otherwise the start of a load. An instance the global names no longer was
\* loaded when it was published, so a load starts on the global's one only.
ThreadLoadGuard(t) ==
    /\ tpc[t] = "load_guard"
    /\ IF Bound(t).is_loaded
       THEN /\ tpc' = [tpc EXCEPT ![t] = "return_model"]
            /\ UNCHANGED <<inflight, nloads, nclears, nsets>>
       ELSE /\ inflight' = [inflight EXCEPT ![t] = nloads + 1]
            /\ nloads' = nloads + 1
            /\ nclears' = nclears
            /\ nsets' = nsets
            /\ tpc' = [tpc EXCEPT ![t] = "load_tokenizer"]
    /\ UNCHANGED <<image_processor, model_id, model, tokenizer, is_loaded, acq,
                   reqVars, tseen, tself, tbound, ninstances>>
    /\ UNCHANGED <<tileVars, httpVars, asyncVars>>

\* self._tokenizer = AutoTokenizer.from_pretrained(...), lines 79-83.
ThreadLoadTokenizer(t, ok) ==
    /\ tpc[t] = "load_tokenizer"
    /\ IF ok
       THEN /\ tokenizer' = Handle(model_id, inflight[t])
            /\ tpc' = [tpc EXCEPT ![t] = "load_model"]
            /\ UNCHANGED <<tseen, inflight>>
       ELSE /\ tpc' = [tpc EXCEPT ![t] = "done"]
            /\ tseen' = [tseen EXCEPT ![t] = Failed]
            /\ inflight' = [inflight EXCEPT ![t] = 0]
            /\ tokenizer' = tokenizer
    /\ UNCHANGED <<image_processor, model_id, model, is_loaded, nloads, acq,
                   reqVars, tself, tbound, ninstances, nclears, nsets>>
    /\ UNCHANGED <<tileVars, httpVars, asyncVars>>

\* self._model = AutoModel.from_pretrained(...).eval(), lines 88-95: the
\* assignment alone; _is_loaded is still False after it.
ThreadLoadModel(t, ok) ==
    /\ tpc[t] = "load_model"
    /\ IF ok
       THEN /\ model' = Handle(model_id, inflight[t])
            /\ tpc' = [tpc EXCEPT ![t] = "set_loaded"]
            /\ UNCHANGED <<tseen, inflight>>
       ELSE /\ tpc' = [tpc EXCEPT ![t] = "done"]
            /\ tseen' = [tseen EXCEPT ![t] = Failed]
            /\ inflight' = [inflight EXCEPT ![t] = 0]
            /\ model' = model
    /\ UNCHANGED <<image_processor, model_id, tokenizer, is_loaded, nloads,
                   acq, reqVars, tself, tbound, ninstances, nclears, nsets>>
    /\ UNCHANGED <<tileVars, httpVars, asyncVars>>

\* The end of _load_model_and_processor, lines 97-105: the log lines and
\* `self._is_loaded = True`.
ThreadSetLoaded(t) ==
    /\ tpc[t] = "set_loaded"
    /\ is_loaded' = TRUE
    /\ inflight' = [inflight EXCEPT ![t] = 0]
    /\ tpc' = [tpc EXCEPT ![t] = "return_model"]
    /\ UNCHANGED <<image_processor, model_id, model, tokenizer, nloads, acq,
                   reqVars, tseen, tself, tbound, ninstances, nclears, nsets>>
    /\ UNCHANGED <<tileVars, httpVars, asyncVars>>

\* The getter's `return self._model`, line 31: the thread receives the handle
\* the field of its instance holds now, whichever load put it there.
ThreadReturnModel(t) ==
    /\ tpc[t] = "return_model"
    /\ tseen' = [tseen EXCEPT ![t] = Bound(t).model]
    /\ tpc' = [tpc EXCEPT ![t] = "done"]
    /\ UNCHANGED <<resVars, reqVars, tself, tbound, inflight, ninstances>>
    /\ UNCHANGED <<tileVars, httpVars, asyncVars>>

\* With no handler running, reload_model() is called on the instance the
\* global names; the threads then serve the next round of requests.
ThreadsReload(out) ==
    /\ \A t \in Threads : tpc[t] = "done"
    /\ image_processor = "ImageProcessor"
    /\ nloads < MaxLoads
    /\ SetSelf(ReloadModelOp(Self, "", out).s)
    /\ tpc' = [t \in Threads |-> "idle"]
    /\ tseen' = [t \in Threads |-> NoHandle]
    /\ tbound' = [t \in Threads |-> "none"]
    /\ UNCHANGED <<image_processor, acq, reqVars, tself, inflight, ninstances>>
    /\ UNCHANGED <<tileVars, httpVars, asyncVars>>

NextConc ==
    \/ \E t \in Threads : ThreadBegin(t)
    \/ \E t \in Threads : ThreadInitCheck(t)
    \/ \E t \in Threads, ok \in BOOLEAN : ThreadConstructTokenizer(t, ok)
    \/ \E t \in Threads, ok \in BOOLEAN : ThreadConstructModel(t, ok)
    \/ \E t \in Threads : ThreadReadGlobal(t)
    \/ \E t \in Threads : ThreadAcquireCheck(t)
    \/ \E t \in Threads : ThreadLoadGuard(t)
    \/ \E t \in Threads, ok \in BOOLEAN : ThreadLoadTokenizer(t, ok)
    \/ \E t \in Threads, ok \in BOOLEAN : ThreadLoadModel(t, ok)
    \/ \E t \in Threads : ThreadSetLoaded(t)
    \/ \E t \in Threads : ThreadReturnModel(t)
    \/ \E out \in LoadOutcomes : ThreadsReload(out)

SpecConc == InitRes /\ [][NextConc]_vars

\* C10: at most one load is in flight at any time, at most one ImageProcessor
\* instance is created, and the acquirers of one round all observe the same
\* outcome.
C10_SingleFlight ==
    /\ Cardinality({t \in Threads : inflight[t] # 0}) <= 1
    /\ ninstances <= 1
    /\ \A t, u \in Threads :
          (tpc[t] = "done" /\ tpc[u] = "done") => tseen[t] = tseen[u]

====
